---- MODULE Spec2Model ----
(***************************************************************************)
(* Content discovery ingestion of wagtail-govuk: the ExternalContentItem   *)
(* store (govuk/models.py), the sync orchestrator                          *)
(* (govuk/content_discovery.py) and its batch callers (the                 *)
(* sync_external_content command and the site-level sync view).            *)
(*                                                                         *)
(* Strings whose whitespace matters (URLs) are sequences of one-character  *)
(* strings, so that str.strip() is computed and not assumed.               *)
(***************************************************************************)
EXTENDS Integers, Sequences, FiniteSets, TLC

\* ------------------------------------------------------------------ bounds
MaxClock == 1      \* timezone.now() takes the values 0..MaxClock
MaxEntries == 3    \* entries of one parsed feed
MaxItems == 3      \* rows of the ExternalContentItem table
MaxSources == 2    \* sources handed to one batch
MaxRssItems == 1   \* <item> elements of an RSS document in a sync pass
MaxLinks == 2      \* <link> elements of one Atom <entry>
MaxFields == 2     \* (text, weight) pairs handed to _text_relevance
MaxResults == 3    \* candidates handed to _merge_results
MaxCatalogue == 2  \* external content items in the database of a search
MaxRepositories == 2 \* repository objects of one GitHub listing
MaxCsvRows == 2     \* data rows of one imported CSV file
MaxRules == 2       \* rows of the AuthenticatedRedirectRule table

\* --------------------------------------------------------------- constants
NoSource == 0      \* source=None
NoKey == 0         \* key of an instance that was never saved

\* ----------------------------------------------------------------- strings
SPACE == " "

RECURSIVE lstrip(_)
lstrip(s) == IF s = <<>> THEN s
             ELSE IF Head(s) = SPACE THEN lstrip(Tail(s)) ELSE s

RECURSIVE rstrip(_)
rstrip(s) == IF s = <<>> THEN s
             ELSE IF s[Len(s)] = SPACE THEN rstrip(SubSeq(s, 1, Len(s) - 1)) ELSE s

\* str.strip()
strip(s) == rstrip(lstrip(s))

\* The URLs of the model.  UrlA and UrlB are two distinct non-blank URLs.
UrlA == <<"a">>
UrlB == <<"b">>
Blank == <<>>
\* what callers may hand to upsert_from_url / assign to item.url
RawUrls == {UrlA, <<SPACE, "a">>, <<"a", SPACE>>, UrlB}
\* what the feed parsers produce: always stripped, possibly empty
EntryUrls == {Blank, UrlA, UrlB}

Titles == {"t1", "t2"}
FeedTitles == {"t1"}

\* one byte of the UTF-8 encoding
CharCode(c) == CASE c = SPACE -> 1 [] c = "a" -> 2 [] c = "b" -> 3

\* hashlib.sha256(bytes).hexdigest(): a digest is a number; the stand-in is
\* the bijective base-4 numeral of the byte string, which like SHA-256 in
\* practice gives different digests to different byte strings.
RECURSIVE sha256(_)
sha256(s) == IF s = <<>> THEN 1
             ELSE sha256(SubSeq(s, 1, Len(s) - 1)) * 4 + CharCode(s[Len(s)])

\* ExternalContentItem.build_key
build_key(url) == sha256(strip(url))

\* ------------------------------------------------------------------ config
\* GovukTag rows (primary keys) that exist
GovukTags == {1, 2}

\* ContentDiscoverySource rows.  default_tags is the StreamField content: it
\* may repeat a tag and may name a tag that no longer exists (3).
SourceIds == {1, 2}
Sources == [s \in SourceIds |->
              IF s = 1 THEN [id |-> 1, name |-> "blog", github |-> FALSE,
                             default_tags |-> <<1, 2, 1>>]
                       ELSE [id |-> 2, name |-> "", github |-> TRUE,
                             default_tags |-> <<2, 3>>]]

\* ContentDiscoverySource.__str__ : name or url
source_label(s) == IF Sources[s].name # "" THEN Sources[s].name ELSE "url"

RECURSIVE dedupe(_, _)
dedupe(seq, seen) ==
    IF seq = <<>> THEN <<>>
    ELSE IF Head(seq) > 0 /\ Head(seq) \notin seen
         THEN <<Head(seq)>> \o dedupe(Tail(seq), seen \cup {Head(seq)})
         ELSE dedupe(Tail(seq), seen)

\* ContentDiscoverySource.get_default_tag_ids
get_default_tag_ids(s) == dedupe(Sources[s].default_tags, {})

\* ContentDiscoverySource.get_default_tags
get_default_tags(s) == SelectSeq(get_default_tag_ids(s), LAMBDA t : t \in GovukTags)

\* ------------------------------------------------------------------- state
VARIABLES
    items,      \* ExternalContentItem table: a set of rows
    tagged,     \* ExternalContentItemTag table: <<item pk, tag>> -> number of rows
    now,        \* timezone.now()
    pc,         \* where the sync invocation is
    caller,     \* the batch caller: mode, sources, position, totals, failures
    run,        \* the running sync_content_discovery_source call
    txn,        \* concurrent workers inside upsert_from_url, and the database locks
    doc,        \* the text or document handed to a parser
    output,     \* what the parser answered
    search,     \* a SearchBackend.search call: request, rows read, result page
    settings    \* the per-site settings: ContentDiscoverySource and redirect rule rows

vars == <<items, tagged, now, pc, caller, run, txn, doc, output, search, settings>>

\* the variables of the store, of the sync invocation and of the other parts
storeVars == <<items, tagged, now>>
syncVars == <<pc, caller, run>>
parseVars == <<doc, output>>

Pks == 1 .. MaxItems
TagKeys == Pks \X GovukTags

\* ---------------------------------------------------------------- metadata
\* A metadata map is a function from some of MetaKeys to values.  A value is
\* one of: None, "", [] and {} (written "None", "", "[]", "{}"), a non-empty
\* string ("str"), a non-empty list ("list") or the number 0 ("0").
MetaKeys == {"format", "entry_id", "author_names", "published_raw", "updated_raw",
             "watchers", "open_issues", "language", "topics"}
MetaValues == {"None", "", "[]", "{}", "str", "list", "0"}

\* the dict comprehension that keeps nothing
prune_nothing(m) == m

\* {key: value for key, value in metadata.items()
\*  if value not in (None, "", [], {})}
prune(m) == LET keep == {k \in DOMAIN m : m[k] \notin {"None", "", "[]", "{}"}}
            IN [k \in keep |-> m[k]]

\* metadata.update(extra)
dict_update(m, extra) == [k \in DOMAIN m \cup DOMAIN extra |->
                            IF k \in DOMAIN extra THEN extra[k] ELSE m[k]]

\* default=dict
EmptyDict == [k \in {} |-> "None"]

\* ------------------------------------------------------------------- store
\* save() that derives the key only when the instance has none yet
save_fields_on_create(row) ==
    [row EXCEPT !.url = strip(row.url),
                !.key = IF row.key = NoKey THEN build_key(strip(row.url)) ELSE row.key]

\* the body of ExternalContentItem.save before super().save()
save_fields(row) == [row EXCEPT !.url = strip(row.url),
                                !.key = build_key(strip(row.url))]

\* unique=True on url and on key
violates_unique(its, row) ==
    \E it \in its : it.pk # row.pk /\ (it.url = row.url \/ it.key = row.key)

FreePks(its) == Pks \ {it.pk : it \in its}
NewPk(its) == CHOOSE p \in FreePks(its) : \A q \in FreePks(its) : p <= q

\* objects.create(...) on a table without the unique constraints
update_or_create_always_insert(its, u, d, t) ==
    IF FreePks(its) = {} THEN [items |-> its, pk |-> 0, exc |-> "IntegrityError"]
    ELSE LET row == save_fields([pk |-> NewPk(its), url |-> u, key |-> NoKey,
                                 source |-> d.source, title |-> d.title,
                                 metadata |-> d.metadata, hidden |-> FALSE,
                                 first_seen_at |-> t, last_seen_at |-> t])
         IN [items |-> its \cup {row}, pk |-> row.pk, exc |-> ""]

\* update_or_create that writes first_seen_at with the other fields
update_or_create_reset_first_seen(its, u, d, t) ==
    LET found == {it \in its : it.url = u} IN
    IF found = {}
    THEN LET row == save_fields([pk |-> NewPk(its), url |-> u, key |-> NoKey,
                                 source |-> d.source, title |-> d.title,
                                 metadata |-> d.metadata, hidden |-> FALSE,
                                 first_seen_at |-> t, last_seen_at |-> t])
         IN [items |-> its \cup {row}, pk |-> row.pk, exc |-> ""]
    ELSE LET old == CHOOSE it \in found : TRUE
             row == save_fields([old EXCEPT !.source = d.source,
                                            !.title = d.title,
                                            !.metadata = d.metadata,
                                            !.first_seen_at = t,
                                            !.last_seen_at = t])
         IN [items |-> (its \ {old}) \cup {row}, pk |-> row.pk, exc |-> ""]

\* update_or_create whose defaults carry hidden=False
update_or_create_unhides(its, u, d, t) ==
    LET found == {it \in its : it.url = u} IN
    IF found = {}
    THEN LET row == save_fields([pk |-> NewPk(its), url |-> u, key |-> NoKey,
                                 source |-> d.source, title |-> d.title,
                                 metadata |-> d.metadata, hidden |-> FALSE,
                                 first_seen_at |-> t, last_seen_at |-> t])
         IN [items |-> its \cup {row}, pk |-> row.pk, exc |-> ""]
    ELSE LET old == CHOOSE it \in found : TRUE
             row == save_fields([old EXCEPT !.source = d.source,
                                            !.title = d.title,
                                            !.metadata = d.metadata,
                                            !.hidden = FALSE,
                                            !.last_seen_at = t])
         IN [items |-> (its \ {old}) \cup {row}, pk |-> row.pk, exc |-> ""]

\* QuerySet.update_or_create(url=u, defaults=d) at time t.
\* Result: the table, the row's pk and the exception raised ("" for none).
update_or_create(its, u, d, t) ==
    LET found == {it \in its : it.url = u} IN
    IF found = {}
    THEN LET row == save_fields([pk |-> NewPk(its), url |-> u, key |-> NoKey,
                                 source |-> d.source, title |-> d.title,
                                 metadata |-> d.metadata, hidden |-> FALSE,
                                 first_seen_at |-> t, last_seen_at |-> t])
         IN IF violates_unique(its, row)
            THEN [items |-> its, pk |-> 0, exc |-> "IntegrityError"]
            ELSE [items |-> its \cup {row}, pk |-> row.pk, exc |-> ""]
    ELSE IF Cardinality(found) > 1
    THEN [items |-> its, pk |-> 0, exc |-> "MultipleObjectsReturned"]
    ELSE LET old == CHOOSE it \in found : TRUE
             row == save_fields([old EXCEPT !.source = d.source,
                                            !.title = d.title,
                                            !.metadata = d.metadata,
                                            !.last_seen_at = t])
         IN [items |-> (its \ {old}) \cup {row}, pk |-> row.pk, exc |-> ""]

\* rows for every default tag, attached or not
rows_to_add_unfiltered(tg, pk, s) == get_default_tags(s)

\* the default-tag part of upsert_from_url: the rows handed to bulk_create
rows_to_add(tg, pk, s) ==
    LET source_tags == get_default_tags(s)
        existing_tag_ids == {t \in GovukTags : tg[<<pk, t>>] > 0}
    IN SelectSeq(source_tags, LAMBDA t : t \notin existing_tag_ids)

\* ExternalContentItemTag.objects.bulk_create(rows, ignore_conflicts=True):
\* the through table has no unique constraint, every row is inserted
bulk_create(tg, pk, rows) ==
    [k \in TagKeys |->
        IF k[1] = pk
        THEN tg[k] + Cardinality({i \in 1 .. Len(rows) : rows[i] = k[2]})
        ELSE tg[k]]

\* ExternalContentItem.upsert_from_url(url=url, source=s, title=title,
\* metadata=md) at time t; the other defaults are written like title
upsert_from_url(its, tg, url, s, title, md, t) ==
    LET normalized_url == strip(url)
        r == update_or_create(its, normalized_url,
                              [source |-> s, title |-> title, metadata |-> md], t)
    IN IF r.exc # "" THEN [items |-> its, tagged |-> tg, exc |-> r.exc]
       ELSE [items |-> r.items,
             tagged |-> IF s # NoSource THEN bulk_create(tg, r.pk, rows_to_add(tg, r.pk, s))
                        ELSE tg,
             exc |-> ""]

\* ---------------------------------------------------------- remote content
\* What a source's URL answers: a transport failure, or a body.  A body is
\* empty, XML with a root element, JSON, or neither; nodes are its
\* <entry>/<item> elements or repository objects, reduced to link, title and
\* the text of the date element, with the author names found (a list) and,
\* for a repository object, the values under watchers(_count),
\* open_issues(_count), language and topics ("blanks": a list of blank names).
NodeWith(u, t, d, authors, repo) ==
    [url |-> u, title |-> t, date |-> d, authors |-> authors, repo |-> repo]

\* a repository object without the optional keys; repository.get gives None
NoRepoKeys == [watchers |-> "None", open_issues |-> "None", language |-> "None",
               topics |-> "None"]

\* a node without authors
Node(u, t, d) == NodeWith(u, t, d, "[]", NoRepoKeys)

\* date texts: none, ISO 8601, RFC 822, neither, and ISO 8601 in form but
\* not a date of the calendar (2024-02-30T00:00:00Z)
Dates == {"", "iso", "rfc822", "junk", "iso_invalid"}

RECURSIVE SeqsUpTo(_, _)
SeqsUpTo(S, n) == IF n = 0 THEN {<<>>}
                  ELSE LET shorter == SeqsUpTo(S, n - 1)
                       IN shorter \cup {Append(q, x) : q \in {r \in shorter : Len(r) = n - 1}, x \in S}

NodeSeqs == SeqsUpTo({Node(u, t, "iso") : u \in EntryUrls, t \in FeedTitles}, MaxEntries)
\* RSS items go through the same loop as Atom entries; their documents are
\* kept shorter
RssSeqs == SeqsUpTo({Node(u, t, "iso") : u \in EntryUrls, t \in FeedTitles}, MaxRssItems)

Body(syntax, root, ns, channel, is_list, nodes) ==
    [syntax |-> syntax, root |-> root, ns |-> ns, channel |-> channel,
     is_list |-> is_list, nodes |-> nodes]

EmptyBody == Body("empty", "", "", FALSE, FALSE, <<>>)
BadBodies == {Body("none", "", "", FALSE, FALSE, <<>>),        \* not XML, not JSON
              Body("xml", "html", "", FALSE, FALSE, <<>>),     \* another root
              Body("xml", "feed", "other", FALSE, FALSE, <<>>),\* foreign namespace
              Body("xml", "rss", "", FALSE, FALSE, <<>>),      \* no <channel>
              Body("json", "", "", FALSE, FALSE, <<>>)}        \* a JSON object
GoodBodies(feeds, rss_feeds) ==
    {Body("xml", "feed", "atom", FALSE, FALSE, n) : n \in feeds}
    \cup {Body("xml", "feed", "", FALSE, FALSE, n) : n \in feeds}
    \cup {Body("xml", "rss", "", TRUE, FALSE, n) : n \in rss_feeds}
    \cup {Body("json", "", "", FALSE, TRUE, n) : n \in feeds}

TransportFailures == {"HTTPError", "URLError", "OSError"}
ResponsesOf(feeds, rss_feeds) ==
    [failure : TransportFailures, body : {EmptyBody}]
    \cup [failure : {""},
          body : {EmptyBody} \cup BadBodies \cup GoodBodies(feeds, rss_feeds)]
Responses == ResponsesOf(NodeSeqs, RssSeqs)

Raise(msg) == [exc |-> "ContentDiscoveryError", msg |-> msg, value |-> <<>>]
Return(v) == [exc |-> "", msg |-> "", value |-> v]

\* fetch_source_content
fetch_source_content(resp) ==
    IF resp.failure \in TransportFailures THEN Raise("Could not fetch")
    ELSE IF resp.body.syntax = "empty" THEN Raise("returned an empty response")
    ELSE Return(resp.body)

\* _parse_timestamp.  parse_datetime returns None for a text that is not
\* ISO 8601 in form and raises ValueError for one that is but names no date;
\* only parsedate_to_datetime is called inside the try.
parse_timestamp(value) ==
    IF value = "" THEN Return("None")
    ELSE IF value = "iso" THEN Return("utc")
    ELSE IF value = "iso_invalid"
         THEN [exc |-> "ValueError", msg |-> "day is out of range for month", value |-> <<>>]
    ELSE IF value = "rfc822" THEN Return("utc")
    ELSE Return("None")

\* the metadata argument of FeedEntry: github_metadata for a repository,
\* the default (an empty dict) for a feed entry
entry_metadata(format, n) ==
    IF format = "github_org_repositories"
    THEN [k \in {"watchers", "open_issues", "language", "topics"} |->
            IF k = "topics" THEN (IF n.repo.topics = "list" THEN "list" ELSE "[]")
            ELSE n.repo[k]]
    ELSE EmptyDict

\* FeedEntry(...) as the parsers fill it: entry_id falls back to the url,
\* published_raw and updated_raw are the date text
FeedEntry(format, n) ==
    [format |-> format, url |-> n.url, title |-> n.title,
     updated_at |-> parse_timestamp(n.date).value,
     entry_id |-> IF strip(n.url) = <<>> THEN "" ELSE "str",
     author_names |-> n.authors,
     published_raw |-> IF n.date = "" THEN "" ELSE "str",
     updated_raw |-> IF n.date = "" THEN "" ELSE "str",
     metadata |-> entry_metadata(format, n)]

\* the loop over the nodes: the first timestamp that raises ends it
entries_of(format, nodes) ==
    LET bad == {i \in 1 .. Len(nodes) : parse_timestamp(nodes[i].date).exc # ""}
    IN IF bad # {}
       THEN parse_timestamp(nodes[CHOOSE i \in bad : \A j \in bad : i <= j].date)
       ELSE Return([i \in 1 .. Len(nodes) |-> FeedEntry(format, nodes[i])])

\* _parse_atom_root
parse_atom_root(body) ==
    IF body.root # "feed" THEN Raise("expected an Atom <feed> document")
    ELSE IF body.ns # "" /\ body.ns # "atom" THEN Raise("Unsupported XML namespace")
    ELSE entries_of("atom", body.nodes)

\* _parse_rss_root
parse_rss_root(body) ==
    IF body.root # "rss" THEN Raise("expected an RSS <rss> document")
    ELSE IF ~body.channel THEN Raise("missing required <channel> element")
    ELSE entries_of("rss", body.nodes)

\* parse_feed (with _parse_xml_root)
parse_feed(body) ==
    IF body.syntax # "xml" THEN Raise("Response body is not valid XML")
    ELSE IF body.root = "feed" THEN parse_atom_root(body)
    ELSE IF body.root = "rss" THEN parse_rss_root(body)
    ELSE Raise("expected an Atom <feed> or RSS <rss> document")

\* parse_github_org_repositories (with _parse_json_document): repositories
\* without html_url are left out
parse_github_org_repositories(body) ==
    IF body.syntax # "json" THEN Raise("Response body is not valid JSON")
    ELSE IF ~body.is_list THEN Raise("expected a JSON list of repositories")
    ELSE entries_of("github_org_repositories",
                    SelectSeq(body.nodes, LAMBDA n : strip(n.url) # <<>>))

\* ------------------------------------------------------------ sync process
ZeroResult(s) == [source_id |-> s, source_label |-> IF s = NoSource THEN "" ELSE source_label(s),
                  total_entries |-> 0, created |-> 0, updated |-> 0, skipped |-> 0]

\* the locals of sync_content_discovery_source; log lists what was done with
\* each entry so far and store_urls the urls stored when existing_urls was read
NoRun == [source |-> NoSource, entries |-> <<>>, existing_urls |-> {},
          seen_urls |-> {}, result |-> ZeroResult(NoSource), i |-> 1,
          log |-> <<>>, store_urls |-> {}, exc |-> "", msg |-> ""]

ZeroTotals == [entries |-> 0, created |-> 0, updated |-> 0, skipped |-> 0]

\* the locals of the caller; outcomes lists how each call ended
NoCaller == [mode |-> "", sources |-> <<>>, idx |-> 1, totals |-> ZeroTotals,
             failures |-> <<>>, results |-> <<>>, outcomes |-> <<>>,
             status |-> "", completed |-> 0 - 1]

Modes == {"source_view", "batch", "command", "site_view"}

SourceLists == SeqsUpTo(SourceIds, MaxSources) \ {<<>>}

\* a query that matches no stored url
existing_urls_query_none(its, entries) == {}

\* existing_urls = set(ExternalContentItem.objects.filter(url__in=[...]))
existing_urls_query(its, entries) ==
    {it.url : it \in {x \in its : \E i \in 1 .. Len(entries) : entries[i].url = x.url}}

\* only the blank check
is_skipped_blank_only(entry_url, seen_urls) == entry_url = <<>>

\* if not entry_url or entry_url in seen_urls
is_skipped(entry_url, seen_urls) == entry_url = <<>> \/ entry_url \in seen_urls

\* if entry_url in existing_urls
is_update(entry_url, existing_urls) == entry_url \in existing_urls

\* the metadata dict sync_content_discovery_source builds for an entry
sync_metadata(entry) ==
    prune(dict_update([k \in {"format", "entry_id", "author_names", "published_raw",
                               "updated_raw"} |->
                         IF k = "format" THEN "str" ELSE entry[k]],
                      entry.metadata))

\* the metadata of an Atom entry with a link and a date and nothing else
PlainMetadata == sync_metadata(FeedEntry("atom", Node(UrlA, "t1", "iso")))

\* total_entries incremented after the skip test instead of before it
counted_after_skip(result, outcome) ==
    CASE outcome = "skipped" -> [result EXCEPT !.skipped = @ + 1]
      [] outcome = "updated" -> [result EXCEPT !.total_entries = @ + 1, !.updated = @ + 1]
      [] outcome = "created" -> [result EXCEPT !.total_entries = @ + 1, !.created = @ + 1]
      [] OTHER -> [result EXCEPT !.total_entries = @ + 1]

\* result.total_entries += 1 and the increment of the entry's counter
counted(result, outcome) ==
    LET r == [result EXCEPT !.total_entries = @ + 1] IN
    CASE outcome = "skipped" -> [r EXCEPT !.skipped = @ + 1]
      [] outcome = "updated" -> [r EXCEPT !.updated = @ + 1]
      [] outcome = "created" -> [r EXCEPT !.created = @ + 1]
      [] OTHER -> r

\* the parts that are not running
NoTxn == [vendor |-> "", w |-> <<>>, log |-> <<>>, initial |-> {}]
NoDoc == [kind |-> "none"]
NoSearch == [status |-> "none"]
NoSettings == [sources |-> {}, redirect_rules |-> {}]

Init ==
    /\ items = {}
    /\ tagged = [k \in TagKeys |-> 0]
    /\ now = 0
    /\ pc = "idle"
    /\ caller = NoCaller
    /\ run = NoRun
    /\ txn = NoTxn
    /\ doc = NoDoc
    /\ output = NoDoc
    /\ search = NoSearch
    /\ settings = NoSettings

\* time passes
Tick ==
    /\ now < MaxClock
    /\ now' = now + 1
    /\ UNCHANGED <<items, tagged, pc, caller, run>>
    /\ UNCHANGED <<txn, doc, output, search, settings>>

\* another caller of ExternalContentItem.upsert_from_url
Upsert(url, s, title, md) ==
    /\ \/ \E it \in items : it.url = strip(url)
       \/ FreePks(items) # {}
    /\ LET r == upsert_from_url(items, tagged, url, s, title, md, now)
       IN /\ items' = r.items
          /\ tagged' = r.tagged
    /\ UNCHANGED <<now, pc, caller, run>>
    /\ UNCHANGED <<txn, doc, output, search, settings>>

\* ExternalContentItem.save() of an existing instance whose url was assigned
Save(pk, url) ==
    /\ \E it \in items :
        /\ it.pk = pk
        /\ LET row == save_fields([it EXCEPT !.url = url, !.last_seen_at = now])
           IN /\ ~violates_unique(items, row)
              /\ items' = (items \ {it}) \cup {row}
    /\ UNCHANGED <<tagged, now, pc, caller, run>>
    /\ UNCHANGED <<txn, doc, output, search, settings>>

\* administrative deletion; the tag rows go with the item (on_delete=CASCADE)
Delete(pk) ==
    /\ \E it \in items : it.pk = pk
    /\ items' = {it \in items : it.pk # pk}
    /\ tagged' = [k \in TagKeys |-> IF k[1] = pk THEN 0 ELSE tagged[k]]
    /\ UNCHANGED <<now, pc, caller, run>>
    /\ UNCHANGED <<txn, doc, output, search, settings>>

\* a caller starts: the single-source view, sync_content_discovery_sources,
\* the sync_external_content command or the site-level view
Start(mode, srcs) ==
    /\ pc = "idle"
    /\ mode = "source_view" => Len(srcs) = 1
    /\ mode = "command" => \A i \in 1 .. Len(srcs) - 1 : srcs[i] < srcs[i + 1]
    /\ mode = "site_view" => \A i, j \in 1 .. Len(srcs) : i # j => srcs[i] # srcs[j]
    /\ caller' = [NoCaller EXCEPT !.mode = mode, !.sources = srcs, !.status = "running"]
    /\ run' = NoRun
    /\ pc' = "call"
    /\ UNCHANGED <<items, tagged, now>>
    /\ UNCHANGED <<txn, doc, output, search, settings>>

\* sync_content_discovery_source up to the loop: fetch, parse, the result
\* object and the existing_urls query
SyncBegin(resp) ==
    /\ pc = "call"
    /\ LET s == caller.sources[caller.idx]
           fetched == fetch_source_content(resp)
           parsed == IF fetched.exc # "" THEN fetched
                     ELSE IF Sources[s].github
                          THEN parse_github_org_repositories(fetched.value)
                          ELSE parse_feed(fetched.value)
       IN IF parsed.exc # ""
          THEN /\ run' = [NoRun EXCEPT !.source = s, !.exc = parsed.exc, !.msg = parsed.msg]
               /\ pc' = "raised"
          ELSE /\ run' = [NoRun EXCEPT
                            !.source = s,
                            !.entries = parsed.value,
                            !.result = ZeroResult(s),
                            !.existing_urls = existing_urls_query(items, parsed.value),
                            !.store_urls = {it.url : it \in items}]
               /\ pc' = "loop"
    /\ UNCHANGED <<items, tagged, now, caller>>
    /\ UNCHANGED <<txn, doc, output, search, settings>>

\* one iteration of the loop over entries
SyncEntry ==
    /\ pc = "loop"
    /\ run.i <= Len(run.entries)
    /\ LET entry == run.entries[run.i]
           entry_url == strip(entry.url)
       IN IF is_skipped(entry_url, run.seen_urls)
          THEN /\ run' = [run EXCEPT !.result = counted(@, "skipped"),
                                     !.i = @ + 1,
                                     !.log = Append(@, "skipped")]
               /\ pc' = pc
               /\ UNCHANGED <<items, tagged>>
          ELSE /\ \/ \E it \in items : it.url = entry_url
                  \/ FreePks(items) # {}
               /\ LET r == upsert_from_url(items, tagged, entry_url, run.source,
                                           entry.title, sync_metadata(entry), now)
                      outcome == IF is_update(entry_url, run.existing_urls)
                                 THEN "updated" ELSE "created"
                  IN IF r.exc # ""
                     THEN /\ run' = [run EXCEPT !.result = counted(@, "raised"),
                                                !.seen_urls = @ \cup {entry_url},
                                                !.exc = r.exc]
                          /\ pc' = "raised"
                          /\ UNCHANGED <<items, tagged>>
                     ELSE /\ items' = r.items
                          /\ tagged' = r.tagged
                          /\ pc' = pc
                          /\ run' = [run EXCEPT
                                       !.result = counted(@, outcome),
                                       !.seen_urls = @ \cup {entry_url},
                                       !.existing_urls = @ \cup {entry_url},
                                       !.i = @ + 1,
                                       !.log = Append(@, outcome)]
    /\ UNCHANGED <<now, caller>>
    /\ UNCHANGED <<txn, doc, output, search, settings>>

\* return result
SyncReturn ==
    /\ pc = "loop"
    /\ run.i > Len(run.entries)
    /\ pc' = "returned"
    /\ UNCHANGED <<items, tagged, now, caller, run>>
    /\ UNCHANGED <<txn, doc, output, search, settings>>

\* totals[...] += result....
add_totals(totals, result) ==
    [entries |-> totals.entries + result.total_entries,
     created |-> totals.created + result.created,
     updated |-> totals.updated + result.updated,
     skipped |-> totals.skipped + result.skipped]

\* what the caller does once its loop over the sources is over
\*   command:   the summary line, then CommandError when a source failed
\*   site_view: the "Synced N of M" message unless nothing was processed and
\*              a source failed
\*   batch:     the list of results is returned
finish(c) ==
    LET n == Len(c.sources) - Len(c.failures) IN
    IF c.mode = "command"
    THEN [c EXCEPT !.completed = n,
                   !.status = IF c.failures # <<>> THEN "CommandError" ELSE "done"]
    ELSE IF c.mode = "site_view"
    THEN [c EXCEPT !.completed = IF c.totals.entries > 0 \/ c.failures = <<>> THEN n ELSE @,
                   !.status = "done"]
    ELSE [c EXCEPT !.status = "done"]

\* move to the next source, or finish
advance(c) ==
    IF c.idx < Len(c.sources) THEN [c EXCEPT !.idx = @ + 1] ELSE finish([c EXCEPT !.idx = @ + 1])

\* the recorded failure: source identity and message
\*   command:   f"{source.id} ({source_label}): {exc}"
\*   site_view: f"{source}: {exc}"
failure_of(mode, s, msg) ==
    [source_id |-> IF mode = "command" THEN s ELSE NoSource,
     source_label |-> source_label(s),
     msg |-> msg]

\* sync_content_discovery_source returned to the caller
CallerReturned ==
    /\ pc = "returned"
    /\ LET c == [caller EXCEPT
                   !.outcomes = Append(@, [source |-> run.source, exc |-> "",
                                           msg |-> "", result |-> run.result])]
           d == IF c.mode \in {"command", "site_view"}
                THEN [c EXCEPT !.totals = add_totals(@, run.result)]
                ELSE [c EXCEPT !.results = Append(@, run.result)]
       IN caller' = advance(d)
    /\ pc' = IF caller'.status = "running" THEN "call" ELSE "idle"
    /\ run' = NoRun
    /\ UNCHANGED <<items, tagged, now>>
    /\ UNCHANGED <<txn, doc, output, search, settings>>

\* sync_content_discovery_source raised
CallerRaised ==
    /\ pc = "raised"
    /\ LET c == [caller EXCEPT
                   !.outcomes = Append(@, [source |-> run.source, exc |-> run.exc,
                                           msg |-> run.msg,
                                           result |-> ZeroResult(run.source)])]
       IN IF run.exc # "ContentDiscoveryError" \/ c.mode = "batch"
          THEN \* no handler: the exception leaves the caller
               caller' = [c EXCEPT !.status = "raised"]
          ELSE caller' = advance([c EXCEPT
                                    !.failures = Append(@, failure_of(c.mode, run.source, run.msg))])
    /\ pc' = IF caller'.status = "running" THEN "call" ELSE "idle"
    /\ run' = NoRun
    /\ UNCHANGED <<items, tagged, now>>
    /\ UNCHANGED <<txn, doc, output, search, settings>>

\* ------------------------------------------------------ concurrent upserts
\* Two sync invocations, one per source, each inside upsert_from_url for the
\* urls of its feed.  update_or_create runs in transaction.atomic():
\*   SELECT ... FOR UPDATE; when no row, INSERT in a savepoint and, on
\*   IntegrityError, SELECT ... FOR UPDATE again; when a row, UPDATE; COMMIT.
\* The default tags are read and inserted after the transaction.
\* The database is PostgreSQL (settings/dev.py: row locks, READ COMMITTED, an
\* INSERT waits for an uncommitted row with the same unique value) or SQLite
\* (settings/local.py: FOR UPDATE is ignored, a reader holds SHARED to the
\* end of its transaction, one writer holds RESERVED, COMMIT waits for the
\* readers, and a write that cannot get RESERVED raises OperationalError).
Vendors == {"postgresql", "sqlite"}
Workers == SourceIds

\* the title the feed of worker w gives to every entry
WorkerTitle(w) == IF w = 1 THEN "t1" ELSE "t2"

\* the non-skipped urls of a worker's feed, in order
WorkLists == {<<UrlA>>, <<UrlB>>, <<UrlA, UrlB>>, <<UrlB, UrlA>>}

NoRow == [pk |-> 0, url |-> <<>>, key |-> NoKey, source |-> NoSource, title |-> "",
          metadata |-> EmptyDict, hidden |-> FALSE, first_seen_at |-> 0,
          last_seen_at |-> 0]

\* an item stored before the workers start
OldRow == [pk |-> 1, url |-> UrlA, key |-> sha256(UrlA), source |-> NoSource,
           title |-> "t1", metadata |-> PlainMetadata, hidden |-> FALSE,
           first_seen_at |-> 0, last_seen_at |-> 0]

\* the locals of one worker: work is its feed, todo what is left of it;
\* conflict records that its INSERT met IntegrityError
Worker(work) == [work |-> work, todo |-> work, pc |-> "get", obj |-> NoRow,
                 pending |-> NoRow, created |-> FALSE, locked |-> 0,
                 shared |-> FALSE, reserved |-> FALSE, existing_tag_ids |-> {},
                 conflict |-> FALSE, exc |-> ""]

\* log lists the committed upserts in commit order
StartTxn(vendor, work) == [vendor |-> vendor, w |-> [w \in Workers |-> Worker(work[w])],
                           log |-> <<>>, initial |-> {}]

Others(w) == Workers \ {w}

\* ROLLBACK and the exception leaving the sync invocation
Aborted(me, exc) == [me EXCEPT !.pc = "raised", !.exc = exc, !.pending = NoRow,
                               !.locked = 0, !.shared = FALSE, !.reserved = FALSE]

\* a table whose url column is not unique
duplicate_url_never(its, u) == FALSE

\* unique=True on url: the INSERT of u meets a committed row
duplicate_url(its, u) == \E it \in its : it.url = u

\* another transaction has inserted u and not yet committed
insert_in_flight(w, u) ==
    \E o \in Others(w) : txn.w[o].created /\ txn.w[o].pending.pk # 0
                         /\ txn.w[o].pending.url = u

\* the primary key sequence
NextPk(w) == LET taken == {it.pk : it \in items}
                          \cup {txn.w[o].pending.pk : o \in Workers}
                 free == Pks \ taken
             IN CHOOSE p \in free : \A q \in free : p <= q

\* SELECT ... FOR UPDATE WHERE url = u (get_or_create's get, first or second)
WGet(w) ==
    /\ txn # NoTxn
    /\ txn.w[w].pc \in {"get", "reget"}
    /\ LET me == txn.w[w]
           u == Head(me.todo)
           found == {it \in items : it.url = u}
       IN IF found = {}
          THEN txn' = [txn EXCEPT !.w[w] =
                         IF me.pc = "get"
                         THEN [me EXCEPT !.pc = "create", !.shared = (txn.vendor = "sqlite")]
                         ELSE Aborted(me, "IntegrityError")]
          ELSE \E row \in found :
                  /\ txn.vendor = "postgresql" =>
                        \A o \in Others(w) : txn.w[o].locked # row.pk
                  /\ txn' = [txn EXCEPT !.w[w] =
                               [me EXCEPT !.pc = "update", !.obj = row,
                                          !.locked = IF txn.vendor = "postgresql"
                                                     THEN row.pk ELSE 0,
                                          !.shared = (txn.vendor = "sqlite")]]
    /\ UNCHANGED <<storeVars, syncVars, parseVars, search, settings>>

\* self.create(**params) inside the savepoint
WCreate(w) ==
    /\ txn # NoTxn
    /\ txn.w[w].pc = "create"
    /\ LET me == txn.w[w]
           u == Head(me.todo)
           row == save_fields([NoRow EXCEPT !.pk = NextPk(w), !.url = u,
                                            !.source = w, !.title = WorkerTitle(w),
                                            !.metadata = PlainMetadata,
                                            !.first_seen_at = now, !.last_seen_at = now])
       IN IF txn.vendor = "sqlite" /\ \E o \in Others(w) : txn.w[o].reserved
          THEN txn' = [txn EXCEPT !.w[w] = Aborted(me, "OperationalError")]
          ELSE IF duplicate_url(items, u)
          THEN txn' = [txn EXCEPT !.w[w] = [me EXCEPT !.pc = "reget", !.conflict = TRUE]]
          ELSE /\ ~insert_in_flight(w, u)
               /\ txn' = [txn EXCEPT !.w[w] =
                            [me EXCEPT !.pc = "commit", !.pending = row, !.created = TRUE,
                                       !.reserved = (txn.vendor = "sqlite")]]
    /\ UNCHANGED <<storeVars, syncVars, parseVars, search, settings>>

\* setattr(obj, k, v) for the defaults, then obj.save(update_fields=...)
WUpdate(w) ==
    /\ txn # NoTxn
    /\ txn.w[w].pc = "update"
    /\ LET me == txn.w[w]
           row == save_fields([me.obj EXCEPT !.source = w, !.title = WorkerTitle(w),
                                             !.metadata = PlainMetadata,
                                             !.last_seen_at = now])
       IN IF txn.vendor = "sqlite" /\ \E o \in Others(w) : txn.w[o].reserved
          THEN txn' = [txn EXCEPT !.w[w] = Aborted(me, "OperationalError")]
          ELSE txn' = [txn EXCEPT !.w[w] =
                         [me EXCEPT !.pc = "commit", !.pending = row, !.created = FALSE,
                                    !.reserved = (txn.vendor = "sqlite")]]
    /\ UNCHANGED <<storeVars, syncVars, parseVars, search, settings>>

\* the end of transaction.atomic()
WCommit(w) ==
    /\ txn # NoTxn
    /\ txn.w[w].pc = "commit"
    /\ txn.vendor = "sqlite" => \A o \in Others(w) : ~txn.w[o].shared
    /\ LET me == txn.w[w]
       IN /\ items' = {it \in items : it.pk # me.pending.pk} \cup {me.pending}
          /\ txn' = [txn EXCEPT
                       !.w[w] = [me EXCEPT !.pc = "tags_read", !.obj = me.pending,
                                           !.pending = NoRow, !.locked = 0,
                                           !.shared = FALSE, !.reserved = FALSE],
                       !.log = Append(@, [worker |-> w, url |-> me.pending.url,
                                          created |-> me.created,
                                          at |-> me.pending.last_seen_at])]
    /\ UNCHANGED <<tagged, now, syncVars, parseVars, search, settings>>

\* existing_tag_ids = set(item.tagged_items.values_list("tag_id", flat=True))
WTagsRead(w) ==
    /\ txn # NoTxn
    /\ txn.w[w].pc = "tags_read"
    /\ txn' = [txn EXCEPT !.w[w].pc = "tags_insert",
                          !.w[w].existing_tag_ids =
                              {t \in GovukTags : tagged[<<txn.w[w].obj.pk, t>>] > 0}]
    /\ UNCHANGED <<storeVars, syncVars, parseVars, search, settings>>

\* the rows of the default tags that were not attached when they were read
worker_rows_to_add(w) ==
    SelectSeq(get_default_tags(w), LAMBDA t : t \notin txn.w[w].existing_tag_ids)

\* the database is locked by another connection
Locked(w) == txn.vendor = "sqlite"
             /\ \E o \in Others(w) : txn.w[o].shared \/ txn.w[o].reserved

\* bulk_create(rows_to_add, ignore_conflicts=True) and return item; the sync
\* loop goes on with its next entry
WTagsInsert(w) ==
    /\ txn # NoTxn
    /\ txn.w[w].pc = "tags_insert"
    /\ LET me == txn.w[w]
           rows == worker_rows_to_add(w)
       IN /\ rows # <<>> => ~Locked(w)
          /\ tagged' = bulk_create(tagged, me.obj.pk, rows)
          /\ txn' = [txn EXCEPT !.w[w] =
                       [me EXCEPT !.todo = Tail(me.todo),
                                  !.pc = IF Tail(me.todo) = <<>> THEN "done" ELSE "get",
                                  !.obj = NoRow, !.existing_tag_ids = {},
                                  !.created = FALSE]]
    /\ UNCHANGED <<items, now, syncVars, parseVars, search, settings>>

\* SQLite gives up waiting for the lock: OperationalError("database is locked")
WTimeout(w) ==
    /\ txn # NoTxn
    /\ txn.vendor = "sqlite"
    /\ \/ txn.w[w].pc = "commit" /\ \E o \in Others(w) : txn.w[o].shared
       \/ txn.w[w].pc = "tags_insert" /\ worker_rows_to_add(w) # <<>> /\ Locked(w)
    /\ txn' = [txn EXCEPT !.w[w] = Aborted(txn.w[w], "OperationalError")]
    /\ UNCHANGED <<storeVars, syncVars, parseVars, search, settings>>

\* time passes between the statements of the workers
WTick ==
    /\ txn # NoTxn
    /\ now < MaxClock
    /\ now' = now + 1
    /\ UNCHANGED <<items, tagged, txn, syncVars, parseVars, search, settings>>

InitWorkers ==
    /\ items \in {{}, {OldRow}}
    /\ tagged = [k \in TagKeys |-> 0]
    /\ now = 0
    /\ pc = "idle"
    /\ caller = NoCaller
    /\ run = NoRun
    /\ \E v \in Vendors, work \in [Workers -> WorkLists] :
          txn = [StartTxn(v, work) EXCEPT !.initial = items]
    /\ doc = NoDoc
    /\ output = NoDoc
    /\ search = NoSearch
    /\ settings = NoSettings

NextWorkers ==
    \/ WTick
    \/ \E w \in Workers : WGet(w)
    \/ \E w \in Workers : WCreate(w)
    \/ \E w \in Workers : WUpdate(w)
    \/ \E w \in Workers : WCommit(w)
    \/ \E w \in Workers : WTagsRead(w)
    \/ \E w \in Workers : WTagsInsert(w)
    \/ \E w \in Workers : WTimeout(w)

SpecWorkers == InitWorkers /\ [][NextWorkers]_vars

\* ---------------------------------------------------------------- parsers
\* The parsers applied to a text: _parse_timestamp to a date text, and
\* parse_atom_feed to an Atom document whose <entry> elements carry <link>
\* elements (rel and href attributes) and a date.
\* rel attributes: absent or empty, alternate, a spelling of it that strip()
\* and lower() bring to alternate, and another relation
Rels == {"", "alternate", " Alternate", "self"}
Hrefs == {Blank, UrlA, <<SPACE, "b">>}
Links == [rel : Rels, href : Hrefs]

\* (link_node.attrib.get("rel") or "alternate").strip().lower()
rel_of(link) == IF link.rel = "" THEN "alternate"
                ELSE IF link.rel = " Alternate" THEN "alternate"
                ELSE link.rel

\* (link_node.attrib.get("href") or "").strip()
href_of(link) == strip(link.href)

First(S) == CHOOSE i \in S : \A j \in S : i <= j

\* the first non-empty href, whatever the rel
entry_link_first_href(links) ==
    LET with_href == {i \in 1 .. Len(links) : href_of(links[i]) # <<>>}
    IN IF with_href # {} THEN href_of(links[First(with_href)]) ELSE <<>>

\* _entry_link
entry_link(links) ==
    LET alternate == {i \in 1 .. Len(links) :
                         href_of(links[i]) # <<>> /\ rel_of(links[i]) = "alternate"}
        with_href == {i \in 1 .. Len(links) : href_of(links[i]) # <<>>}
    IN IF alternate # {} THEN href_of(links[First(alternate)])
       ELSE IF with_href # {} THEN href_of(links[First(with_href)])
       ELSE <<>>

\* an <entry> element
AtomEntry(links, d) == [links |-> links, date |-> d]
AtomEntries == {AtomEntry(l, "iso") : l \in SeqsUpTo(Links, MaxLinks)}

\* entries with one link, used next to the entry under study
PlainEntries == {AtomEntry(<<[rel |-> "alternate", href |-> UrlB]>>, "iso"),
                 AtomEntry(<<[rel |-> "", href |-> UrlA]>>, "iso_invalid")}

\* documents of one or two entries
AtomDocs == {<<e>> : e \in AtomEntries}
            \cup {<<e, p>> : e \in AtomEntries, p \in PlainEntries}
            \cup {<<p, e>> : e \in AtomEntries, p \in PlainEntries}

\* what _parse_atom_root reads in an <entry>: the resolved link and the date
atom_nodes(entries) ==
    [i \in 1 .. Len(entries) |-> Node(entry_link(entries[i].links), "t1", entries[i].date)]

\* parse_atom_feed of a <feed> document in the Atom namespace
parse_atom_feed(entries) ==
    parse_atom_root(Body("xml", "feed", "atom", FALSE, FALSE, atom_nodes(entries)))

\* A repository object of a GitHub listing, reduced to html_url, name and
\* description.  Each is absent from the object, null, the empty string or a
\* text: "url" for html_url, "text" otherwise.
Repositories == [html_url : {"absent", "null", "", "url"},
                 name : {"absent", "null", "", "text"},
                 description : {"absent", "null", "", "text"}]

\* str(value).strip() of a JSON value: str(None) is "None"
py_str(value) == IF value = "null" THEN "None" ELSE value

\* the url, title and summary parse_github_org_repositories gives the
\* repositories of a listing; one without html_url is left out
RECURSIVE repository_entries(_)
repository_entries(document) ==
    IF document = <<>> THEN <<>>
    ELSE LET repository == Head(document)
             \* str(repository.get("html_url") or "").strip()
             html_url == IF repository.html_url = "url" THEN "url" ELSE ""
             \* str(repository.get("name", html_url)).strip()
             title == py_str(IF repository.name = "absent" THEN html_url
                             ELSE repository.name)
             \* str(repository.get("description", "")).strip()
             summary == py_str(IF repository.description = "absent" THEN ""
                               ELSE repository.description)
         IN (IF html_url = "" THEN <<>>
             ELSE << [url |-> html_url, title |-> title, summary |-> summary] >>)
            \o repository_entries(Tail(document))

InitParse ==
    /\ items = {}
    /\ tagged = [k \in TagKeys |-> 0]
    /\ now = 0
    /\ pc = "idle"
    /\ caller = NoCaller
    /\ run = NoRun
    /\ txn = NoTxn
    /\ \/ \E d \in Dates : doc = [kind |-> "date", text |-> d]
       \/ \E es \in AtomDocs : doc = [kind |-> "atom", entries |-> es]
       \/ \E b \in BadBodies \cup GoodBodies(RssSeqs, RssSeqs) :
            doc = [kind |-> "xml", body |-> b]
       \/ \E rs \in SeqsUpTo(Repositories, MaxRepositories) :
            doc = [kind |-> "github", document |-> rs]
    /\ output = NoDoc
    /\ search = NoSearch
    /\ settings = NoSettings

\* _parse_timestamp(value)
ParseTimestamp ==
    /\ doc.kind = "date"
    /\ output = NoDoc
    /\ output' = [kind |-> "timestamp", answer |-> parse_timestamp(doc.text)]
    /\ UNCHANGED <<storeVars, syncVars, txn, doc, search, settings>>

\* parse_atom_feed(xml_content)
ParseAtomFeed ==
    /\ doc.kind = "atom"
    /\ output = NoDoc
    /\ output' = [kind |-> "entries", answer |-> parse_atom_feed(doc.entries)]
    /\ UNCHANGED <<storeVars, syncVars, txn, doc, search, settings>>

\* parse_atom_feed(xml_content) for a whole document: _parse_xml_root, then
\* _parse_atom_root
ParseAtomDocument ==
    /\ doc.kind = "xml"
    /\ output = NoDoc
    /\ output' = [kind |-> "document",
                  answer |-> IF doc.body.syntax # "xml"
                             THEN Raise("Response body is not valid XML")
                             ELSE parse_atom_root(doc.body)]
    /\ UNCHANGED <<storeVars, syncVars, txn, doc, search, settings>>

\* parse_github_org_repositories(json_content) for a JSON list of objects
ParseRepositories ==
    /\ doc.kind = "github"
    /\ output = NoDoc
    /\ output' = [kind |-> "repositories", answer |-> repository_entries(doc.document)]
    /\ UNCHANGED <<storeVars, syncVars, txn, doc, search, settings>>

NextParse == ParseTimestamp \/ ParseAtomFeed \/ ParseAtomDocument \/ ParseRepositories

SpecParse == InitParse /\ [][NextParse]_vars

\* ----------------------------------------------------------------- search
\* Texts are sequences of one-character strings over a, b, A, B, the space
\* and MARKUP, which stands for one HTML tag.  Scores are counted in quarters
\* (0.25) and weights in halves (0.5), so that 2.0 * weight is 4 * w quarters
\* and 0.5 * weight is w quarters; every score of the code is such a multiple.
MARKUP == "<i>"

\* str.lower(), character by character
lower(s) == [i \in 1 .. Len(s) |-> IF s[i] = "A" THEN "a" ELSE IF s[i] = "B" THEN "b" ELSE s[i]]

\* code points, for the comparison of strings
Ord(c) == CASE c = SPACE -> 32 [] c = MARKUP -> 60 [] c = "A" -> 65 [] c = "B" -> 66
            [] c = "a" -> 97 [] c = "b" -> 98 [] c = "x" -> 120 [] c = "y" -> 121
            [] c = "z" -> 122

\* s < t for Python strings
RECURSIVE str_less(_, _)
str_less(s, t) ==
    IF t = <<>> THEN FALSE
    ELSE IF s = <<>> THEN TRUE
    ELSE IF Head(s) # Head(t) THEN Ord(Head(s)) < Ord(Head(t))
    ELSE str_less(Tail(s), Tail(t))

\* django.utils.html.strip_tags
strip_tags(s) == SelectSeq(s, LAMBDA c : c # MARKUP)

\* str.split(): the maximal runs without whitespace
RECURSIVE split(_)
split(s) ==
    IF s = <<>> THEN <<>>
    ELSE IF Head(s) = SPACE THEN split(Tail(s))
    ELSE LET rest == split(Tail(s))
         IN IF Len(s) > 1 /\ s[2] # SPACE
            THEN <<(<<Head(s)>> \o Head(rest))>> \o Tail(rest)
            ELSE <<(<<Head(s)>>)>> \o rest

\* " ".join(words)
RECURSIVE join(_)
join(words) == IF words = <<>> THEN <<>>
               ELSE IF Len(words) = 1 THEN words[1]
               ELSE words[1] \o <<SPACE>> \o join(Tail(words))

\* SearchBackend._clean_text; None and "" are both falsy and both written <<>>
clean_text(value) == IF value = <<>> THEN <<>> ELSE join(split(strip_tags(value)))

\* sub in text
contains(text, sub) ==
    \E i \in 0 .. Len(text) - Len(sub) : SubSeq(text, i + 1, i + Len(sub)) = sub

\* the per-term bonus of one field
RECURSIVE term_bonus(_, _, _)
term_bonus(terms, text, weight) ==
    IF terms = <<>> THEN 0
    ELSE (IF contains(text, Head(terms)) THEN weight ELSE 0)
         + term_bonus(Tail(terms), text, weight)

\* _text_relevance where a field that matches the whole query earns no
\* per-term bonus
RECURSIVE text_relevance_exclusive(_, _)
text_relevance_exclusive(query, weighted_values) ==
    IF weighted_values = <<>> THEN 0
    ELSE LET query_lower == lower(query)
             terms == split(query_lower)
             text == lower(clean_text(Head(weighted_values).value))
             weight == Head(weighted_values).weight
         IN (IF text = <<>> THEN 0
             ELSE IF contains(text, query_lower) THEN 4 * weight
             ELSE term_bonus(terms, text, weight))
            + text_relevance_exclusive(query, Tail(weighted_values))

\* SearchBackend._text_relevance
RECURSIVE text_relevance(_, _)
text_relevance(query, weighted_values) ==
    IF weighted_values = <<>> THEN 0
    ELSE LET query_lower == lower(query)
             terms == split(query_lower)
             text == lower(clean_text(Head(weighted_values).value))
             weight == Head(weighted_values).weight
         IN (IF text = <<>> THEN 0
             ELSE (IF contains(text, query_lower) THEN 4 * weight ELSE 0)
                  + term_bonus(terms, text, weight))
            + text_relevance(query, Tail(weighted_values))

\* the queries and field texts of the model
Queries == {<<>>, <<SPACE>>, <<"a">>, <<"A", SPACE, "b">>, <<"b", SPACE, "b">>, <<"a", "b">>}
WeightedValues ==
    SeqsUpTo([value : {<<>>, <<SPACE>>, <<"a">>, <<"b">>, <<"A", SPACE, SPACE, "B">>,
                       <<"a", MARKUP, "b">>},
              weight : {0, 2, 3}], MaxFields)

\* ---- _merge_results
\* A SearchResultItem is its title, url and score, with, to tell equal
\* candidates apart, the generator it came from and id, its position in the
\* list handed to the merge.
\* the sort key of sorted(): (-item.score, item.title.lower())
key_less(x, y) ==
    \/ x.score > y.score
    \/ x.score = y.score /\ str_less(lower(x.title), lower(y.title))

\* insertion of x after every element that does not come after it
RECURSIVE insert_sorted(_, _)
insert_sorted(sorted, x) ==
    IF sorted = <<>> THEN <<x>>
    ELSE IF key_less(x, Head(sorted)) THEN <<x>> \o sorted
    ELSE <<Head(sorted)>> \o insert_sorted(Tail(sorted), x)

\* a sort that puts the later of two equal candidates first
RECURSIVE sorted_results_unstable(_)
sorted_results_unstable(results) ==
    IF results = <<>> THEN <<>>
    ELSE insert_sorted(sorted_results_unstable(Tail(results)), Head(results))

\* sorted(results, key=...): a stable sort
RECURSIVE sorted_results(_)
sorted_results(results) ==
    IF results = <<>> THEN <<>>
    ELSE insert_sorted(sorted_results(SubSeq(results, 1, Len(results) - 1)),
                       results[Len(results)])

\* the loop over the sorted results that keys seen on the title as written
RECURSIVE unique_by_title_as_written(_, _)
unique_by_title_as_written(results, seen) ==
    IF results = <<>> THEN <<>>
    ELSE IF <<Head(results).title, Head(results).url>> \in seen
         THEN unique_by_title_as_written(Tail(results), seen)
         ELSE <<Head(results)>>
              \o unique_by_title_as_written(Tail(results),
                     seen \cup {<<Head(results).title, Head(results).url>>})

\* the loop over the sorted results, seen holding (title.lower(), url)
RECURSIVE unique_results(_, _)
unique_results(results, seen) ==
    LET key == <<lower(Head(results).title), Head(results).url>>
    IN IF results = <<>> THEN <<>>
       ELSE IF key \in seen THEN unique_results(Tail(results), seen)
       ELSE <<Head(results)>> \o unique_results(Tail(results), seen \cup {key})

\* SearchBackend._merge_results
merge_results(results) == unique_results(sorted_results(results), {})

\* the candidates of the model
Candidates == [title : {<<"a">>, <<"A">>, <<"b">>}, url : {<<"x">>, <<"y">>},
               score : {1, 2}, generator : {"page"}]

\* ---- search(query, filters, page)
\* query=None
NoQuery == <<"None">>

\* ContentDiscoverySource.name of the two sources
SourceName(s) == IF s = 1 THEN <<"a">> ELSE IF s = 2 THEN <<"b">> ELSE <<>>

\* an ExternalContentItem as search reads it; updated_at 0 is NULL, tags is
\* the list of tag names, and source 0 is NULL
ExternalRow(url, title, source, tags, hidden, updated_at) ==
    [url |-> url, title |-> title, summary |-> <<>>, source |-> source, tags |-> tags,
     hidden |-> hidden, updated_at |-> updated_at]

ExternalRows ==
    { ExternalRow(<<"x">>, <<"a">>, 2, <<>>, FALSE, 1),
      ExternalRow(<<"y">>, <<"a">>, 2, <<>>, FALSE, 2),
      ExternalRow(<<"z">>, <<"b">>, 1, <<(<<"a">>)>>, FALSE, 1),
      ExternalRow(<<"z">>, <<"a">>, 1, <<>>, FALSE, 2),
      ExternalRow(<<"y">>, <<"a">>, 0, <<>>, TRUE, 2),
      ExternalRow(<<"x", "a">>, <<>>, 0, <<>>, FALSE, 0),
      ExternalRow(<<"x">>, <<>>, 1, <<>>, FALSE, 1),
      ExternalRow(<<"y">>, <<>>, 1, <<>>, FALSE, 2) }

\* the tables of ExternalContentItem: url is unique
Catalogues == {c \in SUBSET ExternalRows :
                 /\ Cardinality(c) <= MaxCatalogue
                 /\ \A r1, r2 \in c : r1.url = r2.url => r1 = r2}

\* SearchRank of a row, in quarters: what PostgreSQL computes from the text
\* and the query is not modelled, every value is possible; other engines
\* annotate no rank
Ranks(vendor) == IF vendor = "postgresql" THEN {0, 1, 2} ELSE {0}

\* the wagtail Pages as search reads them: seo_title and search_description
\* are empty, and no page has a hero, cards or tags
PageRows ==
    { [url |-> <<"x">>, title |-> <<"a">>, seo_title |-> <<>>, search_description |-> <<>>,
       live |-> TRUE, under_root1 |-> TRUE, first_published_at |-> 1, rank |-> 1],
      [url |-> <<"y">>, title |-> <<"A", SPACE, "b">>, seo_title |-> <<>>,
       search_description |-> <<>>, live |-> FALSE, under_root1 |-> TRUE,
       first_published_at |-> 2, rank |-> 1] }

\* every order in which a query may return the rows S when Before, the pairs
\* <<x, y>> with x ahead of y, is its ORDER BY: rows equal under the ordering
\* come in any order
Orderings(S, Before) ==
    {f \in [1 .. Cardinality(S) -> S] :
        /\ \A i, j \in 1 .. Cardinality(S) : i # j => f[i] # f[j]
        /\ \A i, j \in 1 .. Cardinality(S) : i < j => <<f[j], f[i]>> \notin Before}

\* column__icontains=query
icontains(column, query) == contains(lower(column), lower(query))

\* _apply_filters: live and public default to True, and every page of the
\* model is public; site keeps the descendants of the root page
apply_filters(pages, site) ==
    {p \in pages : p.live /\ (site # "none" => p.under_root1)}

\* _search_pages_sqlite and _search_pages_postgres: the filter
search_pages(pages, query, vendor) ==
    IF vendor = "postgresql" THEN {p \in pages : p.rank > 0}
    ELSE {p \in pages : \/ icontains(p.title, query)
                        \/ icontains(p.seo_title, query)
                        \/ icontains(p.search_description, query)}

\* ... and their order_by; latest_revision_created_at is not modelled
pages_before(vendor, x, y) ==
    LET rx == IF vendor = "postgresql" THEN x.rank ELSE 0
        ry == IF vendor = "postgresql" THEN y.rank ELSE 0
    IN \/ rx > ry
       \/ rx = ry /\ x.first_published_at > y.first_published_at
       \/ rx = ry /\ x.first_published_at = y.first_published_at
          /\ str_less(x.title, y.title)

\* _build_page_results over the rows in the order the query returned them
RECURSIVE build_page_results(_, _, _)
build_page_results(queryset, query, vendor) ==
    IF queryset = <<>> THEN <<>>
    ELSE LET page == Head(queryset)
             page_rank == IF vendor = "postgresql" THEN page.rank ELSE 0
             score == page_rank
                      + text_relevance(query,
                            << [value |-> page.title, weight |-> 6],
                               [value |-> page.seo_title, weight |-> 4],
                               [value |-> page.search_description, weight |-> 2],
                               [value |-> <<>>, weight |-> 3] >>)
         IN (IF score <= 0 THEN <<>>
             ELSE << [title |-> page.title, url |-> page.url, score |-> score,
                      generator |-> "page"] >>)
            \o build_page_results(Tail(queryset), query, vendor)

\* _external_content_queryset: hidden=False, and the site of the source when
\* filters["site"] is a Site; source i belongs to the settings of site i
external_content_queryset(rows, site) ==
    {r \in rows : /\ ~r.hidden
                  /\ site = "site1" => (r.source = 0 \/ r.source = 1)}

\* _unique_values, which _page_tag_labels applies to the tag labels: it drops
\* the labels already seen in another case
RECURSIVE unique_values(_, _)
unique_values(values, seen) ==
    IF values = <<>> THEN <<>>
    ELSE LET clean_value == clean_text(Head(values))
         IN IF clean_value = <<>> \/ lower(clean_value) \in seen
            THEN unique_values(Tail(values), seen)
            ELSE <<clean_value>>
                 \o unique_values(Tail(values), seen \cup {lower(clean_value)})

\* _search_external_content_sqlite and _search_external_content_postgres:
\* the filter.  The tags of the model are single lower-case words, whose slug
\* is the name.
search_external_content(rows, query, vendor) ==
    IF vendor = "postgresql" THEN {r \in rows : r.rank > 0}
    ELSE {r \in rows : \/ icontains(r.title, query)
                       \/ icontains(r.summary, query)
                       \/ icontains(r.url, query)
                       \/ icontains(SourceName(r.source), query)
                       \/ \E i \in 1 .. Len(r.tags) : icontains(r.tags[i], query)}

\* ... and their order_by.  A NULL updated_at sorts last under DESC in SQLite
\* and first in PostgreSQL; created_at, published_at and last_seen_at are not
\* modelled, so rows equal on the rest come in any order.
external_before(vendor, x, y) ==
    LET rx == IF vendor = "postgresql" THEN x.rank ELSE 0
        ry == IF vendor = "postgresql" THEN y.rank ELSE 0
        ux == IF vendor = "postgresql" /\ x.updated_at = 0 THEN MaxClock + 9 ELSE x.updated_at
        uy == IF vendor = "postgresql" /\ y.updated_at = 0 THEN MaxClock + 9 ELSE y.updated_at
    IN \/ rx > ry
       \/ rx = ry /\ ux > uy
       \/ rx = ry /\ ux = uy /\ str_less(x.title, y.title)

\* _build_external_content_results over the rows in the order the query
\* returned them; the weights, in halves, are title 3.0, summary 2.0, url 1.0,
\* source name 1.5 and tags 2.5
RECURSIVE build_external_content_results(_, _, _)
build_external_content_results(queryset, query, vendor) ==
    IF queryset = <<>> THEN <<>>
    ELSE LET item == Head(queryset)
             source_name == clean_text(SourceName(item.source))
             item_rank == IF vendor = "postgresql" THEN item.rank ELSE 0
             tags_text == clean_text(join(unique_values(item.tags, {})))
             score == item_rank
                      + text_relevance(query,
                            << [value |-> item.title, weight |-> 6],
                               [value |-> item.summary, weight |-> 4],
                               [value |-> item.url, weight |-> 2],
                               [value |-> source_name, weight |-> 3],
                               [value |-> tags_text, weight |-> 5] >>)
         IN (IF score <= 0 THEN <<>>
             ELSE << [title |-> IF item.title # <<>> THEN item.title ELSE item.url,
                      url |-> item.url, score |-> score, generator |-> "external"] >>)
            \o build_external_content_results(Tail(queryset), query, vendor)

\* _page_size: filters["page_size"] when it is a positive integer, else
\* DEFAULT_PAGE_SIZE
page_size(input) == IF input = "1" THEN 1 ELSE 15

\* Paginator(object_list, per_page).get_page(number): a number that is not
\* an integer gives the first page, a number out of range the last one
get_page(object_list, per_page, number) ==
    LET count == Len(object_list)
        num_pages == IF count = 0 THEN 1 ELSE (count + per_page - 1) \div per_page
        n == IF number = "x" THEN 1
             ELSE IF number = "2" THEN (IF 2 > num_pages THEN num_pages ELSE 2)
             ELSE 1
        bottom == (n - 1) * per_page
        top == IF bottom + per_page >= count THEN count ELSE bottom + per_page
    IN [number |-> n, count |-> count, object_list |-> SubSeq(object_list, bottom + 1, top)]

\* (query or "") with the strip() left out
clean_query_unstripped(query) == IF query = NoQuery THEN <<>> ELSE query

\* (query or "").strip()
clean_query(query) == IF query = NoQuery THEN <<>> ELSE strip(query)

\* the positions of a candidate list written into its items, to tell equal
\* candidates apart
with_ids(results) == [i \in 1 .. Len(results) |->
                        [title |-> results[i].title, url |-> results[i].url,
                         score |-> results[i].score,
                         generator |-> results[i].generator, id |-> i]]

InitSearch ==
    /\ items = {}
    /\ tagged = [k \in TagKeys |-> 0]
    /\ now = 0
    /\ pc = "idle"
    /\ caller = NoCaller
    /\ run = NoRun
    /\ txn = NoTxn
    /\ doc = NoDoc
    /\ output = NoDoc
    /\ settings = NoSettings
    /\ \/ \E q \in Queries, wv \in WeightedValues :
            search = [kind |-> "relevance", done |-> FALSE, query |-> q,
                      weighted_values |-> wv]
       \/ \E rs \in SeqsUpTo(Candidates, MaxResults) :
            search = [kind |-> "merge", done |-> FALSE, results |-> with_ids(rs)]
       \* filters["site"] is absent, the Site object of site 1 or its root Page
       \/ \E q \in {NoQuery, <<>>, <<SPACE>>, <<SPACE, "a">>, <<"b">>},
             site \in {"none", "site1", "root1"}, size \in {"absent", "1"},
             page \in {"1", "2", "x"}, vendor \in Vendors, rows \in Catalogues,
             pages \in SUBSET PageRows :
            \E rank \in [rows -> Ranks(vendor)] :
              search = [kind |-> "search", done |-> FALSE, query |-> q, site |-> site,
                        page_size |-> size, page |-> page, vendor |-> vendor,
                        pages |-> pages,
                        rows |-> {[url |-> r.url, title |-> r.title,
                                   summary |-> r.summary, source |-> r.source,
                                   tags |-> r.tags, hidden |-> r.hidden,
                                   updated_at |-> r.updated_at, rank |-> rank[r]]
                                  : r \in rows}]

\* _text_relevance(query, weighted_values)
TextRelevance ==
    /\ search.kind = "relevance"
    /\ ~search.done
    /\ search' = [kind |-> "relevance", done |-> TRUE, query |-> search.query,
                  weighted_values |-> search.weighted_values,
                  score |-> text_relevance(search.query, search.weighted_values)]
    /\ UNCHANGED <<storeVars, syncVars, txn, parseVars, settings>>

\* _merge_results(results)
MergeResults ==
    /\ search.kind = "merge"
    /\ ~search.done
    /\ search' = [kind |-> "merge", done |-> TRUE, results |-> search.results,
                  unique_results |-> merge_results(search.results)]
    /\ UNCHANGED <<storeVars, syncVars, txn, parseVars, settings>>

\* what search() leaves behind: the page it returns, and for the properties
\* the generators it invoked, the candidates it concatenated and the merged list
Searched(calls, combined, merged) ==
    [kind |-> "search", done |-> TRUE, query |-> search.query, site |-> search.site,
     page_size |-> search.page_size, page |-> search.page, vendor |-> search.vendor,
     pages |-> search.pages, rows |-> search.rows,
     calls |-> calls, combined |-> combined, merged |-> merged,
     answer |-> get_page(merged, page_size(search.page_size), search.page)]

\* search(query, filters, page)
Search ==
    /\ search.kind = "search"
    /\ ~search.done
    /\ LET query == clean_query(search.query)
       IN IF query = <<>>
          THEN search' = Searched({}, <<>>, <<>>)
          ELSE \E page_queryset \in
                    Orderings(search_pages(apply_filters(search.pages, search.site),
                                           query, search.vendor),
                              {xy \in search.pages \X search.pages :
                                 pages_before(search.vendor, xy[1], xy[2])}),
                  item_queryset \in
                    Orderings(search_external_content(
                                  external_content_queryset(search.rows, search.site),
                                  query, search.vendor),
                              {xy \in search.rows \X search.rows :
                                 external_before(search.vendor, xy[1], xy[2])}) :
                 LET combined ==
                         \* no page of the model has a hero, cards or tags:
                         \* _build_hero_results, _build_card_results and
                         \* _build_tag_results each return the empty list
                         with_ids(build_page_results(page_queryset, query, search.vendor)
                                  \o <<>> \o <<>> \o <<>>
                                  \o build_external_content_results(
                                         item_queryset, query, search.vendor))
                 IN search' = Searched({"page", "hero", "card", "tag", "external"},
                                       combined, merge_results(combined))
    /\ UNCHANGED <<storeVars, syncVars, txn, parseVars, settings>>

NextSearch == TextRelevance \/ MergeResults \/ Search

SpecSearch == InitSearch /\ [][NextSearch]_vars

\* ---------------------------------------------------------- specifications
\* One sync_content_discovery_source call at a time (the single-source view),
\* while other processes upsert, save and delete items.
Next ==
    \/ \E u \in RawUrls : Upsert(u, NoSource, "t1", PlainMetadata)
    \/ \E pk \in Pks, u \in RawUrls : Save(pk, u)
    \/ \E pk \in Pks : Delete(pk)
    \/ \E s \in SourceIds : Start("source_view", <<s>>)
    \/ \E resp \in Responses : SyncBegin(resp)
    \/ SyncEntry
    \/ SyncReturn
    \/ CallerReturned
    \/ CallerRaised

Spec == Init /\ [][Next]_vars

\* The store alone: upserts from any source, saves, deletions, passing time.
NextStore ==
    \/ Tick
    \/ \E u \in RawUrls, s \in SourceIds \cup {NoSource}, t \in Titles :
          Upsert(u, s, t, PlainMetadata)
    \/ \E pk \in Pks, u \in RawUrls : Save(pk, u)
    \/ \E pk \in Pks : Delete(pk)

SpecStore == Init /\ [][NextStore]_vars

\* The batch callers over several sources; the feeds are short.
BatchFeeds == {<<>>,
               <<Node(UrlA, "t1", "rfc822")>>,
               <<Node(UrlA, "t1", "junk"), Node(Blank, "t1", "")>>,
               <<Node(UrlB, "t1", "iso"), Node(UrlA, "t1", "iso"), Node(UrlB, "t1", "iso")>>,
               <<Node(UrlB, "t1", "iso"), Node(UrlA, "t1", "iso_invalid")>>,
               <<NodeWith(UrlA, "t1", "", "[]",
                          [watchers |-> "0", open_issues |-> "None", language |-> "",
                           topics |-> "blanks"]),
                 NodeWith(UrlB, "t1", "iso", "list",
                          [watchers |-> "{}", open_issues |-> "[]", language |-> "str",
                           topics |-> "list"])>>}
BatchResponses == ResponsesOf(BatchFeeds, BatchFeeds)

NextBatch ==
    \/ \E m \in {"batch", "command", "site_view"}, srcs \in SourceLists : Start(m, srcs)
    \/ \E resp \in BatchResponses : SyncBegin(resp)
    \/ SyncEntry
    \/ SyncReturn
    \/ CallerReturned
    \/ CallerRaised

SpecBatch == Init /\ [][NextBatch]_vars

\* an editor ticks "hidden" on the item's form and saves it
Hide(pk) ==
    /\ \E it \in items :
        /\ it.pk = pk
        /\ ~it.hidden
        /\ items' = (items \ {it})
                       \cup {save_fields([it EXCEPT !.hidden = TRUE, !.last_seen_at = now])}
    /\ UNCHANGED <<tagged, now, pc, caller, run>>
    /\ UNCHANGED <<txn, doc, output, search, settings>>

\* syncs of single sources, one after the other, while time passes and an
\* editor hides items
NextEditor ==
    \/ Tick
    \/ \E pk \in Pks : Hide(pk)
    \/ \E s \in SourceIds : Start("source_view", <<s>>)
    \/ \E resp \in ResponsesOf({<<Node(UrlA, "t1", "iso")>>,
                                 <<Node(UrlB, "t2", "iso"), Node(UrlA, "t2", "iso")>>,
                                 <<Node(UrlB, "t1", "iso"), Node(UrlB, "t2", "iso")>>}, {}) :
         SyncBegin(resp)
    \/ SyncEntry
    \/ SyncReturn
    \/ CallerReturned
    \/ CallerRaised

SpecEditor == Init /\ [][NextEditor]_vars

\* ------------------------------------------------------------- CSV import
\* import_content_discovery_sources_from_csv.  A CSV is its header (a set of
\* column names) and its rows; a row gives the text of each cell after
\* _normalize_row, and the cell of a column the header lacks reads as "".
\* default_tags cells are written as the sequence of their "|"-separated
\* keys.  Site rows 1 and 2 exist; the tags "known" and "other" exist.
SiteIds == {1, 2}
FullHeader == {"url", "site_id", "name", "disable_tls_verification", "default_tags"}

CsvRow(site_id, url, name, tls, tags) ==
    [site_id |-> site_id, url |-> url, name |-> name,
     disable_tls_verification |-> tls, default_tags |-> tags]

\* well-formed rows, an empty line, and one row for each way a row is refused
CsvRows ==
    {CsvRow(s, "u", n, "true", <<"known">>) : s \in {"", "1", "2"}, n \in {"n1", "n2"}}
    \cup {CsvRow("1", "v", "", "no", <<>>), CsvRow("1", "u", "n1", "", <<"other", "known">>),
          CsvRow("", "", "", "", <<>>),
          CsvRow("1", "", "n1", "", <<>>), CsvRow("1", "u", "n1", "maybe", <<>>),
          CsvRow("1", "u", "n1", "", <<"known", "missing">>),
          CsvRow("x", "u", "n1", "", <<>>), CsvRow("3", "u", "n1", "", <<>>)}

\* the stored source the rows may meet
OldSource == [pk |-> 1, site |-> 1, sort_order |-> 0, url |-> "u", name |-> "n2",
              disable_tls_verification |-> FALSE, default_tags |-> <<2>>]

ImportError(msg) == [exc |-> "ContentDiscoverySourceImportError", msg |-> msg,
                     value |-> <<>>]

\* row.get(column, "") of the normalized row
cell(csv, row, column) ==
    IF column \in csv.header THEN row[column]
    ELSE IF column = "default_tags" THEN <<>> ELSE ""

\* str.isdigit() and int() of the site_id texts
site_number(raw) == CASE raw = "1" -> 1 [] raw = "2" -> 2 [] raw = "3" -> 3 [] OTHER -> 0

\* _resolve_site_id; default_site_id is 0 when it is None, and restricted
\* says that allowed_site_ids is given
resolve_site_id(csv, row) ==
    LET raw == cell(csv, row, "site_id")
        chosen == IF raw # "" THEN site_number(raw) ELSE csv.default_site_id
    IN IF raw # "" /\ site_number(raw) = 0
       THEN ImportError("site_id must be a positive integer")
       ELSE IF raw = "" /\ csv.default_site_id = 0
       THEN ImportError("missing site_id and no --site-id fallback provided")
       ELSE IF csv.restricted /\ chosen \notin csv.allowed_site_ids
       THEN ImportError("site_id is not allowed for this import")
       ELSE Return(chosen)

\* _parse_bool
TRUTHY_VALUES == {"1", "true", "t", "yes", "y", "on"}
FALSY_VALUES == {"0", "false", "f", "no", "n", "off", ""}
parse_bool(raw) ==
    IF raw \in TRUTHY_VALUES THEN Return(TRUE)
    ELSE IF raw \in FALSY_VALUES THEN Return(FALSE)
    ELSE ImportError("must be one of the boolean texts")

\* GovukTag.objects.filter(slug__in=...): the pk of a slug, 0 when there is none
tag_pk(slug) == CASE slug = "known" -> 1 [] slug = "other" -> 2 [] OTHER -> 0

RECURSIVE ordered_keys(_, _)
ordered_keys(keys, seen) ==
    IF keys = <<>> THEN <<>>
    ELSE IF Head(keys) \in seen THEN ordered_keys(Tail(keys), seen)
    ELSE <<Head(keys)>> \o ordered_keys(Tail(keys), seen \cup {Head(keys)})

\* _parse_default_tag_stream, answering _tag_ids_from_stream of the stream
parse_default_tag_stream(keys) ==
    LET ordered == ordered_keys(keys, {})
    IN IF \E i \in 1 .. Len(ordered) : tag_pk(ordered[i]) = 0
       THEN ImportError("unknown tag key(s)")
       ELSE Return([i \in 1 .. Len(ordered) |-> tag_pk(ordered[i])])

\* a lookup that never finds the stored source
first_source_none(srcs, site, url) == {}

\* ContentDiscoverySource.objects.filter(settings=..., url=url).first(), with
\* Meta.ordering = ["sort_order", "id"]; {} when there is none
first_source(srcs, site, url) ==
    LET found == {s \in srcs : s.site = site /\ s.url = url}
    IN {s \in found : \A o \in found :
           s.sort_order < o.sort_order \/ (s.sort_order = o.sort_order /\ s.pk <= o.pk)}

\* _next_sort_order
next_sort_order(srcs, site) ==
    LET orders == {s.sort_order : s \in {o \in srcs : o.site = site}}
    IN IF orders = {} THEN 0 ELSE (CHOOSE m \in orders : \A o \in orders : o <= m) + 1

\* the primary key of a new ContentDiscoverySource
next_source_pk(srcs) ==
    IF srcs = {} THEN 1
    ELSE (CHOOSE m \in {s.pk : s \in srcs} : \A s \in srcs : s.pk <= m) + 1

\* an import that saves under no transaction: nothing is undone
rollback_nothing(before, srcs) == srcs

\* leaving transaction.atomic() with an exception
rollback(before, srcs) == before

\* name, disable_tls_verification and default_tag_stream of a row; for a
\* column the header lacks (None in the code) the value a new source gets
row_values(csv, row) ==
    [name |-> IF "name" \in csv.header THEN row.name ELSE "",
     tls |-> IF "disable_tls_verification" \in csv.header
             THEN parse_bool(row.disable_tls_verification) ELSE Return(FALSE),
     tags |-> IF "default_tags" \in csv.header
              THEN parse_default_tag_stream(row.default_tags) ELSE Return(<<>>)]

\* the body of the loop for one row: the table after it and what it counted,
\* or the exception it raised
import_row(srcs, csv, row) ==
    LET site == resolve_site_id(csv, row)
        url == cell(csv, row, "url")
        v == row_values(csv, row)
        found == first_source(srcs, site.value, url)
        failed(e) == [sources |-> srcs, counted |-> "", answer |-> e]
        saved(new, what) == [sources |-> new, counted |-> what, answer |-> Return(<<>>)]
    IN IF \A c \in csv.header : IF c = "default_tags" THEN row[c] = <<>> ELSE row[c] = ""
       THEN saved(srcs, "skipped_empty")
       ELSE IF site.exc # "" THEN failed(site)
       ELSE IF site.value \notin SiteIds THEN failed(ImportError("site_id does not exist"))
       ELSE IF url = "" THEN failed(ImportError("'url' cannot be blank"))
       ELSE IF v.tls.exc # "" THEN failed(v.tls)
       ELSE IF v.tags.exc # "" THEN failed(v.tags)
       ELSE IF found = {}
       THEN saved(srcs \cup
                {[pk |-> next_source_pk(srcs), site |-> site.value,
                  sort_order |-> next_sort_order(srcs, site.value), url |-> url,
                  name |-> v.name, disable_tls_verification |-> v.tls.value,
                  default_tags |-> v.tags.value]},
                "created")
       ELSE LET source == CHOOSE s \in found : TRUE
                named == IF "name" \in csv.header /\ source.name # v.name
                         THEN [source EXCEPT !.name = v.name] ELSE source
                flagged == IF "disable_tls_verification" \in csv.header
                              /\ source.disable_tls_verification # v.tls.value
                           THEN [named EXCEPT !.disable_tls_verification = v.tls.value]
                           ELSE named
                tagged_source ==
                    IF "default_tags" \in csv.header
                       /\ dedupe(source.default_tags, {}) # v.tags.value
                    THEN [flagged EXCEPT !.default_tags = v.tags.value] ELSE flagged
            IN IF tagged_source # source
               THEN saved((srcs \ {source}) \cup {tagged_source}, "updated")
               ELSE saved(srcs, "unchanged")

NoImportResult == [processed |-> 0, created |-> 0, updated |-> 0, unchanged |-> 0,
                   skipped_empty |-> 0]

\* ContentDiscoverySourceImportResult after one more row
count_row(result, what) ==
    LET r == IF what = "skipped_empty" THEN result
             ELSE [result EXCEPT !.processed = @ + 1]
    IN CASE what = "skipped_empty" -> [r EXCEPT !.skipped_empty = @ + 1]
         [] what = "created" -> [r EXCEPT !.created = @ + 1]
         [] what = "updated" -> [r EXCEPT !.updated = @ + 1]
         [] what = "unchanged" -> [r EXCEPT !.unchanged = @ + 1]
         [] OTHER -> r

\* the checks before the transaction
header_error(csv) ==
    IF "url" \notin csv.header THEN "CSV header must include a 'url' column."
    ELSE IF "site_id" \notin csv.header /\ csv.default_site_id = 0
    THEN "Provide a 'site_id' column or pass --site-id for all rows."
    ELSE ""

\* the call, up to "with transaction.atomic():"; run counts the imports of
\* this CSV
ImportBegin ==
    /\ doc.kind = "csv"
    /\ txn = NoTxn
    /\ output.kind \in {"none", "import"}
    /\ output.kind = "import" => output.run = 1 /\ output.answer.exc = ""
    /\ LET n == IF output.kind = "none" THEN 1 ELSE 2
       IN IF header_error(doc) # ""
          THEN /\ output' = [kind |-> "import", run |-> n,
                             answer |-> ImportError(header_error(doc)),
                             before |-> settings.sources, first |-> NoImportResult]
               /\ txn' = txn
          ELSE /\ txn' = [kind |-> "import", run |-> n, todo |-> doc.rows,
                          result |-> NoImportResult, before |-> settings.sources,
                          first |-> IF n = 1 THEN NoImportResult ELSE output.answer.value]
               /\ output' = NoDoc
    /\ UNCHANGED <<storeVars, syncVars, doc, search, settings>>

\* one turn of the loop over the reader
ImportRow ==
    /\ txn # NoTxn /\ txn.kind = "import" /\ txn.todo # <<>>
    /\ LET r == import_row(settings.sources, doc, Head(txn.todo))
       IN IF r.answer.exc # ""
          THEN /\ settings' = [settings EXCEPT
                                 !.sources = rollback(txn.before, settings.sources)]
               /\ output' = [kind |-> "import", run |-> txn.run, answer |-> r.answer,
                             before |-> txn.before, first |-> txn.first]
               /\ txn' = NoTxn
          ELSE /\ settings' = [settings EXCEPT !.sources = r.sources]
               /\ txn' = [txn EXCEPT !.todo = Tail(@),
                                     !.result = count_row(@, r.counted)]
               /\ output' = output
    /\ UNCHANGED <<storeVars, syncVars, doc, search>>

\* the reader is exhausted: COMMIT and return result
ImportCommit ==
    /\ txn # NoTxn /\ txn.kind = "import" /\ txn.todo = <<>>
    /\ output' = [kind |-> "import", run |-> txn.run, answer |-> Return(txn.result),
                  before |-> txn.before, first |-> txn.first]
    /\ txn' = NoTxn
    /\ UNCHANGED <<storeVars, syncVars, doc, search, settings>>

\* the command (allowed_site_ids is None) or the admin view of site 1
\* (allowed_site_ids = {1}) imports a file into an empty table or one that
\* holds OldSource
InitImport ==
    /\ items = {}
    /\ tagged = [k \in TagKeys |-> 0]
    /\ now = 0
    /\ pc = "idle"
    /\ caller = NoCaller
    /\ run = NoRun
    /\ txn = NoTxn
    /\ \E header \in {FullHeader, {"url"}}, rows \in SeqsUpTo(CsvRows, MaxCsvRows),
          site \in {0, 1}, restricted \in BOOLEAN :
         doc = [kind |-> "csv", header |-> header, rows |-> rows,
                default_site_id |-> site, restricted |-> restricted,
                allowed_site_ids |-> {1}]
    /\ output = NoDoc
    /\ search = NoSearch
    /\ \E old \in SUBSET {OldSource} : settings = [NoSettings EXCEPT !.sources = old]

NextImport == ImportBegin \/ ImportRow \/ ImportCommit

SpecImport == InitImport /\ [][NextImport]_vars

\* --------------------------------------------------- authenticated redirects
\* AuthenticatedUserRedirectMiddleware and the rules of
\* AuthenticatedRedirectSettings.  A URL text is written as what urlsplit
\* makes of it: "/a" is Loc("", "", "/a", ""), "/a?q" is Loc("", "", "/a", "q"),
\* "//evil/b" is Loc("", "evil", "/b", "") and "https://self/b" is
\* Loc("https", "self", "/b", "").  Requests arrive at the host "self".
Loc(scheme, netloc, path, query) ==
    [scheme |-> scheme, netloc |-> netloc, path |-> path, query |-> query]

\* the text consisting of a path
PathText(path) == Loc("", "", path, "")

RequestPaths == {"/a", "/b", "/admin/a"}

\* the rows an AuthenticatedRedirectRule table may hold: objects.create
\* stores a rule without calling clean
RuleSources == {PathText(p) : p \in RequestPaths}
RuleDestinations ==
    {PathText("/a"), PathText("/b"), Loc("", "", "/a", "q"), Loc("", "evil", "/b", ""),
     Loc("", "self", "/b", ""), Loc("https", "self", "/b", "")}
Rules ==
    [site : {1}, source_path : RuleSources, destination_path : RuleDestinations]
    \cup {[site |-> 2, source_path |-> PathText("/a"), destination_path |-> PathText("/b")]}

\* the UniqueConstraint on (settings, source_path)
RuleTables ==
    {t \in SUBSET Rules :
        /\ Cardinality(t) <= MaxRules
        /\ \A r, o \in t : (r.site = o.site /\ r.source_path = o.source_path) => r = o}

\* str.startswith("/")
starts_with_slash(text) ==
    /\ text.scheme = ""
    /\ text.netloc # "" \/ text.path \in {"/", "/a", "/b", "/admin/a"}

\* AuthenticatedRedirectRule.clean raises no ValidationError
clean_passes(rule) ==
    /\ starts_with_slash(rule.source_path)
    /\ rule.source_path.query = ""
    /\ starts_with_slash(rule.destination_path)
    /\ rule.source_path # rule.destination_path

\* request.path.startswith(("/admin/", "/django-admin/"))
starts_with_admin_prefix(path) == path \in {"/admin/a", "/django-admin/a"}

\* django.utils.http.url_has_allowed_host_and_scheme
url_has_allowed_host_and_scheme(url, allowed_hosts, require_https) ==
    LET scheme == IF url.scheme = "" /\ url.netloc # "" THEN "http" ELSE url.scheme
        valid_schemes == IF require_https THEN {"https"} ELSE {"http", "https"}
    IN /\ url # Loc("", "", "", "")
       /\ ~(url.netloc = "" /\ url.scheme # "")
       /\ url.netloc = "" \/ url.netloc \in allowed_hosts
       /\ scheme = "" \/ scheme \in valid_schemes

NoLocation == Loc("", "", "", "")

\* a middleware that redirects whatever the request method is
get_redirect_url_any_method(request, rules) ==
    LET matching == {r \in rules : r.site = request.site
                                   /\ r.source_path = PathText(request.path)}
    IN IF matching = {} THEN NoLocation
       ELSE (CHOOSE r \in matching : TRUE).destination_path

\* AuthenticatedUserRedirectMiddleware._get_redirect_url; NoLocation is None
get_redirect_url(request, rules) ==
    LET matching == {r \in rules : r.site = request.site
                                   /\ r.source_path = PathText(request.path)}
        destination_path == (CHOOSE r \in matching : TRUE).destination_path
    IN IF request.method \notin {"GET", "HEAD"} THEN NoLocation
       ELSE IF ~request.authenticated THEN NoLocation
       ELSE IF starts_with_admin_prefix(request.path) THEN NoLocation
       ELSE IF request.site = 0 THEN NoLocation
       ELSE IF matching = {} THEN NoLocation
       ELSE IF destination_path = PathText(request.path) THEN NoLocation
       ELSE IF ~url_has_allowed_host_and_scheme(destination_path, {request.host},
                                                request.secure)
       THEN NoLocation
       ELSE destination_path

\* AuthenticatedUserRedirectMiddleware.__call__
Handle ==
    /\ doc.kind = "request"
    /\ output = NoDoc
    /\ LET redirect_url == get_redirect_url(doc, settings.redirect_rules)
       IN output' = IF redirect_url # NoLocation
                    THEN [kind |-> "response", status |-> 302, location |-> redirect_url,
                          request |-> doc]
                    ELSE [kind |-> "response", status |-> 200, location |-> NoLocation,
                          request |-> doc]
    /\ UNCHANGED <<storeVars, syncVars, txn, doc, search, settings>>

\* the client requests the Location of a 302 with the same method and
\* session, resolved against the URL it had requested
Follow ==
    /\ output.kind = "response"
    /\ output.status = 302
    /\ doc' = [doc EXCEPT !.path = output.location.path,
                          !.query = output.location.query,
                          !.host = IF output.location.netloc = "" THEN @
                                   ELSE output.location.netloc,
                          !.secure = IF output.location.scheme = "" THEN @
                                     ELSE output.location.scheme = "https"]
    /\ output' = NoDoc
    /\ UNCHANGED <<storeVars, syncVars, txn, search, settings>>

\* a request to a site (0 when Site.find_for_request finds none) whose
\* settings hold a table of rules
InitRedirect ==
    /\ items = {}
    /\ tagged = [k \in TagKeys |-> 0]
    /\ now = 0
    /\ pc = "idle"
    /\ caller = NoCaller
    /\ run = NoRun
    /\ txn = NoTxn
    /\ \E method \in {"GET", "HEAD", "POST"}, authenticated \in BOOLEAN,
          path \in RequestPaths, secure \in BOOLEAN, site \in {0, 1} :
         doc = [kind |-> "request", method |-> method, authenticated |-> authenticated,
                path |-> path, query |-> "", host |-> "self", secure |-> secure,
                site |-> site]
    /\ output = NoDoc
    /\ search = NoSearch
    /\ \E t \in RuleTables : settings = [NoSettings EXCEPT !.redirect_rules = t]

NextRedirect == Handle \/ Follow

SpecRedirect == InitRedirect /\ [][NextRedirect]_vars

\* the server answers every request and the client follows every redirect
SpecRedirectFair == SpecRedirect /\ WF_vars(Handle) /\ WF_vars(Follow)

TypeOK ==
    /\ now \in 0 .. MaxClock
    /\ pc \in {"idle", "call", "loop", "returned", "raised"}
    /\ \A it \in items : it.pk \in Pks /\ it.first_seen_at <= it.last_seen_at
    /\ \A k \in TagKeys : tagged[k] \in Nat

\* ------------------------------------------------------------------ claims
ItemsWithUrl(u) == {it \in items : strip(it.url) = u}

\* C1: whatever upserts and sync passes ran, the store holds at most one
\* ExternalContentItem per distinct trimmed URL.
C1_OneItemPerUrl ==
    \A a, b \in items : strip(a.url) = strip(b.url) => a = b

\* a URL that was in the store before the pass has been upserted again by it
C1_Witness ==
    /\ pc = "loop"
    /\ \E i \in 1 .. Len(run.log) :
          /\ run.log[i] = "updated"
          /\ Cardinality(ItemsWithUrl(strip(run.entries[i].url))) = 1
    /\ Cardinality(items) = 2

\* C2: every stored item's key is the SHA-256 digest of its trimmed url.
C2_KeyIsHashOfUrl ==
    \A it \in items : it.key = sha256(strip(it.url)) /\ it.url = strip(it.url)

\* a pass created one item and updated another, and both are stored
C2_Witness ==
    /\ pc = "returned"
    /\ run.result.created > 0
    /\ run.result.updated > 0
    /\ \E it \in items : it.url = UrlA /\ it.key = sha256(UrlA)
    /\ \E it \in items : it.url = UrlB /\ it.key = sha256(UrlB)

\* C3: an upsert of a URL that is already stored leaves exactly one item for
\* it, with the title just given, the first_seen_at it had and a last_seen_at
\* that is the time of this upsert and not earlier than the one it had.
C3_SecondUpsert ==
    [][\A old \in items, s \in SourceIds \cup {NoSource}, t \in Titles :
          Upsert(old.url, s, t, PlainMetadata) =>
             \E new \in items' :
                /\ {x \in items' : strip(x.url) = old.url} = {new}
                /\ new.title = t
                /\ new.first_seen_at = old.first_seen_at
                /\ new.last_seen_at = now
                /\ new.last_seen_at >= old.last_seen_at]_vars

\* an item first upserted by source 1 (it carries tag 1) was upserted again,
\* later, by source 2 with the other title
C3_Witness ==
    \E it \in items :
       /\ it.title = "t2"
       /\ it.source = 2
       /\ tagged[<<it.pk, 1>>] = 1
       /\ it.first_seen_at = 0
       /\ it.last_seen_at = 1
       /\ Cardinality(ItemsWithUrl(it.url)) = 1

\* C4: an item holds at most one association per tag, and exactly one for
\* each default tag of the source that last upserted it; upserting it again
\* from that source raises nothing and leaves the associations as they are.
C4_TagsAppliedOnce ==
    /\ \A k \in TagKeys : tagged[k] <= 1
    /\ \A it \in items :
          it.source # NoSource =>
             LET again == upsert_from_url(items, tagged, it.url, it.source, it.title,
                                          it.metadata, now)
                 tags == get_default_tags(it.source)
             IN /\ \A i \in 1 .. Len(tags) : tagged[<<it.pk, tags[i]>>] = 1
                /\ again.exc = ""
                /\ again.tagged = tagged

\* an item upserted by source 1 and then again, at a later time, by source 1
C4_Witness ==
    \E it \in items :
       /\ it.source = 1
       /\ it.first_seen_at < it.last_seen_at
       /\ tagged[<<it.pk, 1>>] = 1
       /\ tagged[<<it.pk, 2>>] = 1

\* the trimmed url of entry i of the running pass
EntryUrl(i) == strip(run.entries[i].url)
InPass == pc \in {"loop", "returned"}
LogCount(outcome) == Cardinality({i \in 1 .. Len(run.log) : run.log[i] = outcome})
DistinctUrls == {EntryUrl(i) : i \in 1 .. Len(run.entries)} \ {<<>>}

\* C5: when a pass returns, created + updated + skipped = total_entries =
\* the number of entries parsed, and each entry went into exactly one counter.
C5_CountersAddUp ==
    pc = "returned" =>
       /\ run.result.created + run.result.updated + run.result.skipped
             = run.result.total_entries
       /\ run.result.total_entries = Len(run.entries)
       /\ Len(run.log) = Len(run.entries)
       /\ run.result.created = LogCount("created")
       /\ run.result.updated = LogCount("updated")
       /\ run.result.skipped = LogCount("skipped")

\* a pass over three entries returned with something in each counter
C5_Witness ==
    /\ pc = "returned"
    /\ run.result.total_entries = 3
    /\ run.result.created = 1
    /\ run.result.updated = 1
    /\ run.result.skipped = 1

\* entry i has a blank url or the url of an earlier entry that was not skipped
SkipExpected(i) ==
    \/ EntryUrl(i) = <<>>
    \/ \E j \in 1 .. i - 1 : run.log[j] # "skipped" /\ EntryUrl(j) = EntryUrl(i)

\* C6: an entry is skipped exactly when its url is blank or was already
\* taken by an earlier entry of the pass; a skipped entry writes nothing and
\* any other entry is upserted; at the end skipped counts those entries and
\* created + updated the distinct non-blank urls.
C6_SkipRule ==
    /\ [](InPass =>
            /\ \A i \in 1 .. Len(run.log) : run.log[i] = "skipped" <=> SkipExpected(i)
            /\ pc = "returned" =>
                  /\ run.result.skipped
                        = Cardinality({i \in 1 .. Len(run.entries) : SkipExpected(i)})
                  /\ run.result.created + run.result.updated = Cardinality(DistinctUrls))
    /\ [][(pc = "loop" /\ Len(run'.log) = Len(run.log) + 1) =>
             IF run'.log[Len(run'.log)] = "skipped"
             THEN items' = items /\ tagged' = tagged
             ELSE \E it \in items' : it.url = EntryUrl(run.i) /\ it.source = run.source]_vars

\* three entries, one of them blank: total_entries=3, skipped=1, created+updated=2
C6_Witness ==
    /\ pc = "returned"
    /\ Len(run.entries) = 3
    /\ Cardinality({i \in 1 .. 3 : EntryUrl(i) = <<>>}) = 1
    /\ run.result.total_entries = 3
    /\ run.result.skipped = 1
    /\ run.result.created + run.result.updated = 2

ParsedNodes(s, body) ==
    IF Sources[s].github THEN SelectSeq(body.nodes, LAMBDA n : strip(n.url) # <<>>)
    ELSE body.nodes

\* the response cannot be fetched, or is not a document of the source's kind,
\* or parsing it ends in an exception
FetchOrParseFails(s, resp) ==
    \/ resp.failure # ""
    \/ resp.body.syntax = "empty"
    \/ IF Sources[s].github
       THEN ~(resp.body.syntax = "json" /\ resp.body.is_list)
       ELSE ~(/\ resp.body.syntax = "xml"
              /\ \/ resp.body.root = "feed" /\ resp.body.ns \in {"atom", ""}
                 \/ resp.body.root = "rss" /\ resp.body.channel)
    \/ \E i \in 1 .. Len(ParsedNodes(s, resp.body)) :
          ParsedNodes(s, resp.body)[i].date = "iso_invalid"

\* C8: a call whose fetch or parse fails raises ContentDiscoveryError and has
\* written nothing: items and tag associations are as before the call.
C8_FailureWritesNothing ==
    [][\A resp \in BatchResponses :
          (SyncBegin(resp) /\ FetchOrParseFails(caller.sources[caller.idx], resp)) =>
             /\ pc' = "raised"
             /\ run'.exc = "ContentDiscoveryError"
             /\ items' = items
             /\ tagged' = tagged]_vars

BatchOver == pc = "idle" /\ caller.status \in {"done", "raised", "CommandError"}

\* C9: sync_content_discovery_sources attempts every source of its input, in
\* order, whether or not an earlier one failed, and ends with one outcome per
\* source.
C9_BatchAttemptsAll ==
    (caller.mode = "batch" /\ BatchOver) =>
       /\ Len(caller.outcomes) = Len(caller.sources)
       /\ \A i \in 1 .. Len(caller.sources) : caller.outcomes[i].source = caller.sources[i]
       /\ caller.status = "done"

Failed(o) == o.exc # ""
Succeeded(o) == o.exc = ""

RECURSIVE SumResults(_)
SumResults(os) ==
    IF os = <<>> THEN ZeroTotals ELSE add_totals(SumResults(Tail(os)), Head(os).result)

\* C10: the command and the site view attempt every source exactly once, in
\* order; each failure is recorded with its source and message; the totals
\* are the sums over the sources that succeeded; the number of completed
\* sources, where reported, is the number of sources less the failures.
C10_FailuresIsolated ==
    (caller.mode \in {"command", "site_view"} /\ BatchOver) =>
       LET failed == SelectSeq(caller.outcomes, Failed)
           ok == SelectSeq(caller.outcomes, Succeeded)
       IN /\ caller.status # "raised"
          /\ Len(caller.outcomes) = Len(caller.sources)
          /\ \A i \in 1 .. Len(caller.sources) : caller.outcomes[i].source = caller.sources[i]
          /\ Len(caller.failures) = Len(failed)
          /\ \A k \in 1 .. Len(failed) :
                /\ caller.failures[k].source_label = source_label(failed[k].source)
                /\ caller.failures[k].msg = failed[k].msg
                /\ caller.failures[k].msg # ""
                /\ caller.mode = "command" => caller.failures[k].source_id = failed[k].source
          /\ caller.totals = SumResults(ok)
          /\ caller.mode = "command" => caller.completed # 0 - 1
          /\ caller.completed # 0 - 1 =>
                caller.completed = Len(caller.sources) - Len(caller.failures)

\* the committed upserts of url u, in commit order
CommitsOf(u) == SelectSeq(txn.log, LAMBDA c : c.url = u)
WorkersOver == \A w \in Workers : txn.w[w].pc \in {"done", "raised"}

\* C11: while two sync invocations upsert concurrently, and when they are
\* over, the store holds exactly one item for each url that was upserted; its
\* source, title and last_seen_at are those of the upsert that committed
\* last, its key and first_seen_at those of the row's creation; and every
\* upsert of a worker that ended normally was committed.
C11_ConcurrentUpsert ==
    /\ \A a, b \in items : a.url = b.url => a = b
    /\ \A u \in {UrlA, UrlB} :
          LET commits == CommitsOf(u) IN
          commits # <<>> =>
             \E it \in items :
                LET last == commits[Len(commits)] IN
                /\ {x \in items : x.url = u} = {it}
                /\ it.source = last.worker
                /\ it.title = WorkerTitle(last.worker)
                /\ it.last_seen_at = last.at
                /\ it.key = sha256(u)
                /\ it.first_seen_at = IF \E old \in txn.initial : old.url = u
                                      THEN (CHOOSE old \in txn.initial : old.url = u).first_seen_at
                                      ELSE commits[1].at
                /\ \A i \in 1 .. Len(commits) :
                      commits[i].created <=> (i = 1 /\ ~\E old \in txn.initial : old.url = u)
    /\ \A w \in Workers :
          txn.w[w].pc = "done" =>
             \A i \in 1 .. Len(txn.w[w].work) :
                \E k \in 1 .. Len(txn.log) :
                   txn.log[k].worker = w /\ txn.log[k].url = txn.w[w].work[i]

\* both workers upserted UrlB, which was not stored: one INSERT met
\* IntegrityError and its worker updated the row the other had created
C11_Witness ==
    /\ WorkersOver
    /\ txn.vendor = "postgresql"
    /\ \E w \in Workers : txn.w[w].conflict
    /\ Len(CommitsOf(UrlB)) = 2
    /\ CommitsOf(UrlB)[1].worker # CommitsOf(UrlB)[2].worker
    /\ \E it \in items : it.url = UrlB /\ it.first_seen_at < it.last_seen_at

C13_TimestampNeverRaises ==
    /\ output.kind = "timestamp" =>
          /\ output.answer.exc = ""
          /\ doc.text \in {"", "junk", "iso_invalid"} => output.answer.value = "None"
    /\ output.kind = "entries" => output.answer.exc = ""

\* the first link of entry i of the document with a non-empty href and a rel
\* that is alternate, absent or empty
FirstAlternate(i) ==
    LET links == doc.entries[i].links
    IN First({k \in 1 .. Len(links) :
                 /\ strip(links[k].href) # <<>>
                 /\ links[k].rel \in {"", "alternate", " Alternate"}})

HasAlternate(i) ==
    \E k \in 1 .. Len(doc.entries[i].links) :
       /\ strip(doc.entries[i].links[k].href) # <<>>
       /\ doc.entries[i].links[k].rel \in {"", "alternate", " Alternate"}

\* the links of entry i that say rel="alternate" and have a non-empty href
ExplicitAlternates(i) ==
    LET links == doc.entries[i].links
    IN {k \in 1 .. Len(links) :
           strip(links[k].href) # <<>> /\ links[k].rel \in {"alternate", " Alternate"}}

ValidDates == \A i \in 1 .. Len(doc.entries) : doc.entries[i].date # "iso_invalid"

\* C20 as stated: parse_atom_feed gives one FeedEntry per <entry>, in order,
\* and the url of an entry that has a rel="alternate" link with a non-empty
\* href is the href of such a link, whatever links precede it.
C20_AlternateLinkAsStated ==
    (output.kind = "entries" /\ ValidDates) =>
       /\ output.answer.exc = ""
       /\ Len(output.answer.value) = Len(doc.entries)
       /\ \A i \in 1 .. Len(doc.entries) :
             ExplicitAlternates(i) # {} =>
                \E k \in ExplicitAlternates(i) :
                   output.answer.value[i].url = strip(doc.entries[i].links[k].href)

\* C20 (amended): parse_atom_feed gives one FeedEntry per <entry>, in order;
\* the url of entry i is the trimmed href of its first link that has a
\* non-empty href and whose rel is alternate, absent or empty; without such a
\* link it is the first non-empty href, or empty.
C20_AlternateLink ==
    (output.kind = "entries" /\ ValidDates) =>
       /\ output.answer.exc = ""
       /\ Len(output.answer.value) = Len(doc.entries)
       /\ \A i \in 1 .. Len(doc.entries) :
             LET links == doc.entries[i].links
                 url == output.answer.value[i].url
             IN IF HasAlternate(i)
                THEN url = strip(links[FirstAlternate(i)].href)
                ELSE \/ url = <<>> /\ \A k \in 1 .. Len(links) : strip(links[k].href) = <<>>
                     \/ \E k \in 1 .. Len(links) :
                           /\ url = strip(links[k].href)
                           /\ url # <<>>
                           /\ \A j \in 1 .. k - 1 : strip(links[j].href) = <<>>

\* a document of two entries was parsed; in the first, a link with another
\* rel precedes the rel="alternate" link whose href became the url
C20_Witness ==
    /\ output.kind = "entries"
    /\ Len(doc.entries) = 2
    /\ Len(output.answer.value) = 2
    /\ doc.entries[1].links = <<[rel |-> "self", href |-> UrlA],
                                [rel |-> "alternate", href |-> <<SPACE, "b">>]>>
    /\ output.answer.value[1].url = <<"b">>
    /\ output.answer.value[2].url = UrlB

\* ---- search
\* the list a merge was handed and the list it returned, in a state where
\* _merge_results has run: on its own, or inside search()
Merged == search.done /\ (search.kind = "merge" \/ search.kind = "search")
MergeInput == IF search.kind = "merge" THEN search.results ELSE search.combined
MergeOutput == IF search.kind = "merge" THEN search.unique_results ELSE search.merged
KeyOf(x) == <<lower(x.title), x.url>>

\* C14: the merged list holds exactly one candidate for every pair
\* (lower-cased title, URL) among the candidates, it is one of the candidates
\* handed in, and no candidate with the same pair has a higher score.
C14_MergeDeduplicates ==
    Merged =>
      /\ \A i \in 1 .. Len(MergeOutput) :
           /\ \E k \in 1 .. Len(MergeInput) : MergeInput[k] = MergeOutput[i]
           /\ \A j \in 1 .. Len(MergeOutput) :
                KeyOf(MergeOutput[i]) = KeyOf(MergeOutput[j]) => i = j
           /\ \A k \in 1 .. Len(MergeInput) :
                KeyOf(MergeInput[k]) = KeyOf(MergeOutput[i])
                  => MergeInput[k].score <= MergeOutput[i].score
      /\ \A k \in 1 .. Len(MergeInput) :
           \E i \in 1 .. Len(MergeOutput) : KeyOf(MergeOutput[i]) = KeyOf(MergeInput[k])

\* a merge of two candidates whose titles differ in case only, with the same
\* URL, the first with the lower score: the second one is kept
C14_Witness ==
    /\ search.kind = "merge" /\ search.done
    /\ Len(search.results) >= 2
    /\ search.results[1].title # search.results[2].title
    /\ KeyOf(search.results[1]) = KeyOf(search.results[2])
    /\ search.results[1].score < search.results[2].score
    /\ \E i \in 1 .. Len(search.unique_results) :
         search.unique_results[i] = search.results[2]
    /\ \A i \in 1 .. Len(search.unique_results) :
         search.unique_results[i] # search.results[1]

\* the place of a generator in the concatenation of search()
GeneratorOrder(g) == CASE g = "page" -> 1 [] g = "hero" -> 2 [] g = "card" -> 3
                       [] g = "tag" -> 4 [] g = "external" -> 5

\* C15: the merged list is in descending order of score and, for equal
\* scores, in ascending order of the lower-cased title; candidates equal on
\* both are in the order of the list handed in, which search() concatenates
\* as pages, hero, cards, tags, external.
C15_MergeOrder ==
    Merged =>
      /\ \A i, j \in 1 .. Len(MergeOutput) :
           i < j =>
             LET x == MergeOutput[i]
                 y == MergeOutput[j]
             IN \/ x.score > y.score
                \/ /\ x.score = y.score
                   /\ str_less(lower(x.title), lower(y.title))
                \/ /\ x.score = y.score
                   /\ lower(x.title) = lower(y.title)
                   /\ x.id < y.id
      /\ search.kind = "search" =>
           \A i, j \in 1 .. Len(search.combined) :
             i < j => GeneratorOrder(search.combined[i].generator)
                        <= GeneratorOrder(search.combined[j].generator)

\* a merge that returns three candidates, two of them equal on score and
\* lower-cased title and in the order they were handed in
C15_Witness ==
    /\ search.kind = "merge" /\ search.done
    /\ Len(search.unique_results) = 3
    /\ \E i \in 1 .. 2 :
         /\ search.unique_results[i].score = search.unique_results[i + 1].score
         /\ search.unique_results[i].title # search.unique_results[i + 1].title
         /\ lower(search.unique_results[i].title)
              = lower(search.unique_results[i + 1].title)
         /\ search.unique_results[i].id < search.unique_results[i + 1].id

\* a query that is None, empty or made of whitespace only
IsBlank(query) == query = NoQuery \/ \A i \in 1 .. Len(query) : query[i] = SPACE

\* C16: a search for a query that is None, empty or whitespace-only returns a
\* page with no results and invokes none of the generators.
C16_BlankQuery ==
    (search.kind = "search" /\ search.done /\ IsBlank(search.query)) =>
      /\ search.answer.object_list = <<>>
      /\ search.answer.count = 0
      /\ search.calls = {}

\* a whitespace-only query answered over a database that holds a live page
\* and a visible item
C16_Witness ==
    /\ search.kind = "search" /\ search.done
    /\ search.query = <<SPACE>>
    /\ \E p \in search.pages : p.live
    /\ \E r \in search.rows : ~r.hidden
    /\ search.answer.object_list = <<>>
    /\ search.calls = {}

\* the positions of the query at which a whitespace-delimited term starts,
\* and the term that starts there
TermStarts(q) == {k \in 1 .. Len(q) : q[k] # SPACE /\ (k = 1 \/ q[k - 1] = SPACE)}
TermAt(q, k) ==
    LET end == CHOOSE e \in k .. Len(q) :
                 /\ \A m \in k .. e : q[m] # SPACE
                 /\ (e = Len(q) \/ q[e + 1] = SPACE)
    IN SubSeq(q, k, end)

\* what one field earns: nothing when its cleaned text is empty, else
\* 2.0 * weight if the text holds the whole lower-cased query, plus
\* 0.5 * weight for every term of the query the text holds
FieldScore(query, field) ==
    LET text == lower(clean_text(field.value))
        q == lower(query)
    IN IF text = <<>> THEN 0
       ELSE (IF contains(text, q) THEN 4 * field.weight ELSE 0)
            + field.weight * Cardinality({k \in TermStarts(q) : contains(text, TermAt(q, k))})

RECURSIVE SumOver(_, _, _)
SumOver(query, fields, n) ==
    IF n = 0 THEN 0 ELSE FieldScore(query, fields[n]) + SumOver(query, fields, n - 1)

\* C17: _text_relevance returns the sum over the fields of 2.0 * weight for
\* a field whose cleaned, lower-cased text holds the whole lower-cased query
\* plus 0.5 * weight for every query term the text holds; the two add up,
\* and the score is never negative.
C17_TextRelevance ==
    (search.kind = "relevance" /\ search.done) =>
      /\ search.score = SumOver(search.query, search.weighted_values,
                                Len(search.weighted_values))
      /\ search.score >= 0

\* a field that holds the whole two-term query earns both bonuses: with
\* weight 1.0 it scores 2.0 + 0.5 + 0.5
C17_Witness ==
    /\ search.kind = "relevance" /\ search.done
    /\ search.query = <<"A", SPACE, "b">>
    /\ search.weighted_values = << [value |-> <<"A", SPACE, SPACE, "B">>, weight |-> 2] >>
    /\ search.score = 12

\* the item a result of the external generator was built from
RowOf(result) == CHOOSE r \in search.rows : r.url = result.url

\* two visible items that differ in URL and updated_at only, x the more
\* recently updated one
SameButNewer(x, y) ==
    /\ x.title = y.title /\ x.summary = y.summary
    /\ x.source = y.source /\ x.tags = y.tags
    /\ ~x.hidden /\ ~y.hidden
    /\ x.url # y.url
    /\ y.updated_at > 0 /\ x.updated_at > y.updated_at

\* C18: of two results with the same score that come from two visible
\* external items alike in title, summary, source and tags, the one of the
\* more recently updated item comes first in the merged results.
C18_RecentFirst ==
    (search.kind = "search" /\ search.done) =>
      \A i, j \in 1 .. Len(search.merged) :
        ( /\ search.merged[i].generator = "external"
          /\ search.merged[j].generator = "external"
          /\ search.merged[i].score = search.merged[j].score
          /\ SameButNewer(RowOf(search.merged[i]), RowOf(search.merged[j])) )
        => i < j

\* an item matched through its source name and its tags and not through
\* its title or summary, and an item whose title holds the whole query
ViaSourceAndTags(r, query) ==
    /\ ~icontains(r.title, query) /\ ~icontains(r.summary, query)
    /\ icontains(SourceName(r.source), query)
    /\ \E k \in 1 .. Len(r.tags) : icontains(r.tags[k], query)
ViaTitle(r, query) == r.title # <<>> /\ icontains(r.title, query)

\* C19: a result of an external item whose title holds the whole query comes
\* before a result of an external item that matches through its source name
\* and tags only.
C19_TitleAboveSourceAndTags ==
    (search.kind = "search" /\ search.done) =>
      \A i, j \in 1 .. Len(search.merged) :
        ( /\ search.merged[i].generator = "external"
          /\ search.merged[j].generator = "external"
          /\ ViaTitle(RowOf(search.merged[i]), clean_query(search.query))
          /\ ViaSourceAndTags(RowOf(search.merged[j]), clean_query(search.query)) )
        => i < j

\* ---- parsers and sync, continued
\* C21: parse_atom_feed of a document whose root is not <feed> in the Atom
\* namespace (another root name, <feed> in another namespace or in none)
\* raises ContentDiscoveryError and returns no entries.
C21_AtomNamespaceOnly ==
    (doc.kind = "xml" /\ output # NoDoc
     /\ ~(doc.body.syntax = "xml" /\ doc.body.root = "feed" /\ doc.body.ns = "atom"))
      => /\ output.answer.exc = "ContentDiscoveryError"
         /\ output.answer.value = <<>>

\* C22: no result of the external generator comes from a hidden item, and
\* when a site is requested, as a Site or as its root page, every such
\* result comes from an item without source or with a source of that site.
C22_ExternalScope ==
    (search.kind = "search" /\ search.done) =>
      \A i \in 1 .. Len(search.combined) :
        search.combined[i].generator = "external" =>
          /\ ~RowOf(search.combined[i]).hidden
          /\ search.site \in {"site1", "root1"}
               => RowOf(search.combined[i]).source \in {0, 1}

\* entries i < j of the pass carry the same url, which no earlier entry
\* carries and which was not stored when the pass began
FirstAndRepeat(i, j) ==
    /\ i < j /\ j <= Len(run.log)
    /\ EntryUrl(i) # <<>> /\ EntryUrl(i) = EntryUrl(j)
    /\ \A k \in 1 .. i - 1 : EntryUrl(k) # EntryUrl(i)
    /\ EntryUrl(i) \notin run.store_urls

\* C26 as stated: the first occurrence of a url that is new to the store is
\* counted as created and its second occurrence as updated.
C26_RepeatCountsAsUpdated ==
    InPass => \A i, j \in 1 .. Len(run.log) :
                FirstAndRepeat(i, j) => run.log[i] = "created" /\ run.log[j] = "updated"

\* C26: the first occurrence of a url that is new to the store is counted as
\* created and every later occurrence in the same pass as skipped; when the
\* pass returns, created counts the url once and updated not at all.
C26_RepeatCountsAsSkipped ==
    InPass =>
      /\ \A i, j \in 1 .. Len(run.log) :
           FirstAndRepeat(i, j) => run.log[i] = "created" /\ run.log[j] = "skipped"
      /\ (pc = "returned" /\ Len(run.entries) = 2 /\ FirstAndRepeat(1, 2)) =>
           /\ run.result.created = 1
           /\ run.result.updated = 0
           /\ run.result.skipped = 1

\* a pass over a feed that names one new url twice has returned
C26_Witness ==
    /\ pc = "returned"
    /\ Len(run.entries) = 2
    /\ FirstAndRepeat(1, 2)
    /\ run.log = <<"created", "skipped">>

\* the repositories of the listing that have a non-empty html_url, in order
WithHtmlUrl(document) == SelectSeq(document, LAMBDA r : r.html_url = "url")

\* C27: every repository with a non-empty html_url yields an entry whose
\* title is its name when the name is a non-empty text and its URL when the
\* name is absent, null or empty; neither title nor summary is the text "None".
C27_RepositoryTitle ==
    (doc.kind = "github" /\ output # NoDoc) =>
      /\ Len(output.answer) = Len(WithHtmlUrl(doc.document))
      /\ \A i \in 1 .. Len(output.answer) :
           /\ output.answer[i].title
                = IF WithHtmlUrl(doc.document)[i].name = "text" THEN "text" ELSE "url"
           /\ output.answer[i].title # "None"
           /\ output.answer[i].summary # "None"

\* C28: a step of the sync loop that upserts an entry leaves every item that
\* was stored before it in the store, with the hidden flag and the
\* first_seen_at it had, and with no fewer rows for any tag.
C28_SyncKeepsEditorialState ==
    [][(pc = "loop" /\ Len(run'.log) = Len(run.log) + 1) =>
         \A it \in items :
           \E new \in items' :
             /\ new.pk = it.pk
             /\ new.hidden = it.hidden
             /\ new.first_seen_at = it.first_seen_at
             /\ \A t \in GovukTags : tagged'[<<it.pk, t>>] >= tagged[<<it.pk, t>>]]_vars

\* a sync has just counted as updated an item that is hidden, was first seen
\* before now and carries a tag
C28_Witness ==
    /\ pc = "loop"
    /\ Len(run.log) >= 1
    /\ run.log[Len(run.log)] = "updated"
    /\ \E it \in items :
         /\ it.url = EntryUrl(Len(run.log))
         /\ it.hidden
         /\ it.first_seen_at < now
         /\ it.last_seen_at = now
         /\ it.source = run.source
         /\ \E t \in GovukTags : tagged[<<it.pk, t>>] > 0

\* the tags that are default tags of both sources
SharedDefaultTags ==
    {t \in GovukTags :
        \A s \in SourceIds : \E i \in 1 .. Len(get_default_tags(s)) :
                                 get_default_tags(s)[i] = t}

\* C29: while two workers, whose sources share a default tag, upsert their
\* urls concurrently, no item has more than one row for a shared tag.
C29_OneAssociationPerSharedTag ==
    txn # NoTxn =>
      \A it \in items : \A t \in SharedDefaultTags : tagged[<<it.pk, t>>] <= 1

\* an import has raised ContentDiscoverySourceImportError
ImportRaised ==
    /\ output.kind = "import"
    /\ output.answer.exc = "ContentDiscoverySourceImportError"

\* C23: when an import raises ContentDiscoverySourceImportError, the stored
\* sources are the ones stored before that import: nothing an earlier row
\* of it created or updated remains.
C23_ImportAllOrNothing ==
    ImportRaised => settings.sources = output.before

\* the first row of the file created or updated a source and the second
\* row was refused
C23_Witness ==
    /\ ImportRaised
    /\ header_error(doc) = ""
    /\ Len(doc.rows) >= 2
    /\ import_row(output.before, doc, doc.rows[1]).counted \in {"created", "updated"}

\* the second import of the same file has returned its result
ImportedTwice ==
    /\ output.kind = "import"
    /\ output.run = 2
    /\ output.answer.exc = ""

\* the (site, url) of the rows of the file that are not empty lines
RowKey(i) == <<resolve_site_id(doc, doc.rows[i]).value, cell(doc, doc.rows[i], "url")>>

\* no two rows of the file name the same (site, url)
KeysDistinct ==
    \A i, j \in 1 .. Len(doc.rows) :
       (i # j /\ RowKey(i)[2] # "" /\ RowKey(j)[2] # "") => RowKey(i) # RowKey(j)

OneSourcePerSiteAndUrl ==
    \A a, b \in settings.sources : (a.site = b.site /\ a.url = b.url) => a = b

\* C24 as stated: the import never stores two sources with the same
\* (site, url), and the second import of the same file counts nothing as
\* created or updated and every processed row as unchanged.
C24_SecondImportChangesNothing ==
    /\ OneSourcePerSiteAndUrl
    /\ ImportedTwice =>
         /\ output.answer.value.created = 0
         /\ output.answer.value.updated = 0
         /\ output.answer.value.unchanged = output.answer.value.processed

\* C24, amended: the import never stores two sources with the same
\* (site, url); the second import of the same file creates nothing, and when
\* no two rows of the file name the same (site, url) it updates nothing and
\* counts every processed row as unchanged.
C24_SecondImportCreatesNothing ==
    /\ OneSourcePerSiteAndUrl
    /\ ImportedTwice =>
         /\ output.answer.value.created = 0
         /\ KeysDistinct =>
              /\ output.answer.value.updated = 0
              /\ output.answer.value.unchanged = output.answer.value.processed
              /\ settings.sources = output.before

\* a file with distinct keys whose first import updated the stored source
\* and created another has been imported again
C24_Witness ==
    /\ ImportedTwice
    /\ KeysDistinct
    /\ output.first.created >= 1
    /\ output.first.updated >= 1
    /\ Cardinality(settings.sources) = 2

\* the rules of the request's site whose source_path is the request path
MatchingRules(request) ==
    {r \in settings.redirect_rules :
        r.site = request.site /\ r.source_path = PathText(request.path)}

\* the conditions under which the request is to be redirected to destination
RedirectDue(request, destination) ==
    /\ request.method \in {"GET", "HEAD"}
    /\ request.authenticated
    /\ ~starts_with_admin_prefix(request.path)
    /\ \E r \in MatchingRules(request) : r.destination_path = destination
    /\ destination # PathText(request.path)
    /\ url_has_allowed_host_and_scheme(destination, {request.host}, request.secure)

\* C25: the middleware answers 302 to a rule's destination exactly when the
\* method is GET or HEAD, the user is authenticated, the path has no admin
\* prefix, the request's site has a rule for the path, and the destination
\* differs from the path and is a safe URL of the same host; every other
\* request reaches the next handler as it came.
C25_RedirectExactlyWhenDue ==
    output.kind = "response" =>
      /\ output.status = 302 <=>
            \E destination \in RuleDestinations : RedirectDue(output.request, destination)
      /\ output.status = 302 => RedirectDue(output.request, output.location)
      /\ output.status # 302 => output.status = 200 /\ doc = output.request

\* an authenticated HEAD request has been redirected to "/b"
C25_Witness ==
    /\ output.kind = "response"
    /\ output.status = 302
    /\ output.location = PathText("/b")
    /\ output.request.method = "HEAD"

\* C30: when every stored rule passes AuthenticatedRedirectRule.clean, a
\* client that follows the redirects eventually gets an answer that is not
\* a redirect.
C30_RedirectsEnd ==
    (doc.kind = "request" /\ \A r \in settings.redirect_rules : clean_passes(r))
        ~> (output.kind = "response" /\ output.status = 200)

================================================================
